---- MODULE Spec2Model ----
(***************************************************************************)
(* Model of alembic/autogenerate/render.py: the rendering of a tree of     *)
(* migration operations into the lines of a migration script.              *)
(*                                                                         *)
(* Rendered text is kept as text (strings built with \o); a rendered       *)
(* statement is a record [prefix, fn, args] whose args are the <<key,      *)
(* text>> pairs of the format template the renderer selected, in order.    *)
(* Python None / True / False are the strings "None" / "True" / "False".   *)
(***************************************************************************)
EXTENDS Integers, Sequences, FiniteSets, TLC

VARIABLES
    opts,           \* autogen_context.opts: the rendering options
    impl,           \* autogen_context.migration_context.impl.render_type behaviour
    _has_batch,     \* autogen_context._has_batch: the inside-batch flag
    imports,        \* autogen_context.imports
    pc,             \* position of _render_python_into_templatevars / render call
    stack,          \* active _render_modify_table calls, outermost first
    buf,            \* _render_cmd_body: lines written to the printer so far
    has_lines,      \* _render_cmd_body: local has_lines
    nops,           \* render_op calls made in the current direction
    template_args,  \* the template variables filled by the pass
    exc,            \* the exception propagating, or None
    warnings,       \* number of util.warn calls
    emitted,        \* lines the top-level render_op calls of the direction returned
    last,           \* result of the latest single render_op call (SpecOps)
    migration_script,  \* the MigrationScript rendered as a whole (SpecTwice)
    prior           \* what the previous render of migration_script produced

vars == <<opts, impl, _has_batch, imports, pc, stack, buf, has_lines, nops,
          template_args, exc, warnings, emitted, last, migration_script, prior>>

None == "None"
False == "False"
True == "True"

\* operations without children rendered in one pass
MaxOps == 2
\* nesting depth of ModifyTableOps containers
MaxDepth == 2

(***************************************************************************)
(* Prefixes                                                                *)
(***************************************************************************)

\* `x or ""`
OrEmpty(x) == IF x = None THEN "" ELSE x

_sqlalchemy_autogenerate_prefix(o) == OrEmpty(o.sqlalchemy_module_prefix)

_alembic_autogenerate_prefix(o, has_batch) ==
    IF has_batch THEN "batch_op." ELSE OrEmpty(o.alembic_module_prefix)

\* str identifiers and None pass through unchanged
_ident(name) == name

\* repr() of a str, of None
Repr(s) == IF s = None THEN "None" ELSE "'" \o s \o "'"

(***************************************************************************)
(* render_item hook.  opts.render_item is None (no hook), "decline" (a     *)
(* hook that returns False for every item) or the one item kind for which  *)
(* the hook returns text.                                                  *)
(***************************************************************************)
RenderItemHooks == {None, "decline", "type", "column", "server_default"}

_user_defined_render(kind, o) ==
    IF o.render_item # None /\ o.render_item = kind
      THEN "render_item(" \o kind \o ")"
      ELSE False

(***************************************************************************)
(* Type descriptors: [mod, cls, item, base, mapping].  item and base are   *)
(* sequences of at most one type; mapping is a set of <<dialect, type>>.   *)
(***************************************************************************)
SqlType(mod, cls) == [mod |-> mod, cls |-> cls, item |-> <<>>, base |-> <<>>, mapping |-> {}]

Integer == SqlType("sqlalchemy.sql.sqltypes", "Integer")
PG_UUID == SqlType("sqlalchemy.dialects.postgresql.base", "UUID")
MY_TINYINT == SqlType("sqlalchemy.dialects.mysql.types", "TINYINT")
MyType == SqlType("myapp.types", "MyType")
ARRAY(t) == [SqlType("sqlalchemy.sql.sqltypes", "ARRAY") EXCEPT !.item = <<t>>]
Variant(b, m) == [SqlType("sqlalchemy.sql.sqltypes", "Variant") EXCEPT !.base = <<b>>, !.mapping = m]

Types == {Integer, PG_UUID, MY_TINYINT, MyType, ARRAY(Integer), ARRAY(PG_UUID),
          Variant(Integer, {<<"mysql", MY_TINYINT>>}),
          Variant(PG_UUID, {<<"mysql", MY_TINYINT>>, <<"postgresql", PG_UUID>>})}

\* mod.startswith("sqlalchemy.dialects")
IsDialectMod(mod) == mod \in {"sqlalchemy.dialects.postgresql.base", "sqlalchemy.dialects.mysql.types"}
\* mod.startswith("sqlalchemy.")
IsSqlalchemyMod(mod) == IsDialectMod(mod) \/ mod = "sqlalchemy.sql.sqltypes"
\* re.match(r"sqlalchemy\.dialects\.(\w+)", mod).group(1)
Dname(mod) == IF mod = "sqlalchemy.dialects.postgresql.base" THEN "postgresql" ELSE "mysql"

\* lexical order of the strings that are sorted in this module
Rank(s) ==
    CASE s = "from sqlalchemy.dialects import mysql" -> 1
      [] s = "from sqlalchemy.dialects import postgresql" -> 2
      [] s = "import myapp" -> 3
      [] s = "mysql" -> 4
      [] s = "postgresql" -> 5
      [] OTHER -> 6

\* sorted(S): the elements of S in lexical order
RECURSIVE Sorted(_)
Sorted(S) ==
    IF S = {} THEN <<>>
    ELSE LET m == CHOOSE x \in S : \A y \in S : Rank(x) <= Rank(y)
         IN <<m>> \o Sorted(S \ {m})

\* repr(type_)
RECURSIVE ReprOfType(_)
ReprOfType(t) ==
    t.cls \o "(" \o (IF t.item = <<>> THEN "" ELSE ReprOfType(t.item[1])) \o ")"

\* impl.render_type(type_, autogen_context): None when there is no impl or it declines
ImplModes == {"absent", "decline", "renders"}
impl_render_type(im, t) ==
    IF im = "renders" THEN "impl." \o t.cls \o "()" ELSE None

\* the target of a type's mapping entry for a dialect
MappedType(t, dialect) == (CHOOSE p \in t.mapping : p[1] = dialect)[2]

(***************************************************************************)
(* _repr_type and its helpers return [text, imports].                      *)
(***************************************************************************)
RECURSIVE _repr_type(_, _, _, _)
RECURSIVE _render_Variant_tail(_, _, _, _, _, _)

_render_type_w_subtype(t, o, im, imps) ==
    IF t.item = <<>> THEN [text |-> False, imports |-> imps]
    ELSE LET sub == _repr_type(t.item[1], o, im, imps)
             outer_type == t.cls \o "(" \o sub.text \o ")"
         IN IF IsDialectMod(t.mod)
              THEN [text |-> Dname(t.mod) \o "." \o outer_type, imports |-> sub.imports]
              ELSE IF IsSqlalchemyMod(t.mod)
                THEN [text |-> _sqlalchemy_autogenerate_prefix(o) \o outer_type,
                      imports |-> sub.imports]
                ELSE [text |-> None, imports |-> sub.imports]

_render_ARRAY_type(t, o, im, imps) == _render_type_w_subtype(t, o, im, imps)

_render_Variant_tail(t, dialects, text, o, im, imps) ==
    IF dialects = <<>> THEN [text |-> text, imports |-> imps]
    ELSE LET r == _repr_type(MappedType(t, Head(dialects)), o, im, imps)
         IN _render_Variant_tail(t, Tail(dialects),
                text \o ".with_variant(" \o r.text \o ", " \o Repr(Head(dialects)) \o ")",
                o, im, r.imports)

_render_Variant_type(t, o, im, imps) ==
    LET b == _repr_type(t.base[1], o, im, imps)
    IN _render_Variant_tail(t, Sorted({p[1] : p \in t.mapping}), b.text, o, im, b.imports)

_user_autogenerate_prefix(o, t) ==
    IF o.user_module_prefix = None THEN t.mod \o "." ELSE o.user_module_prefix

\* a _repr_type that records no import for a dialect type
_repr_type_noimport(t, o, im, imps) ==
    [text |-> Dname(t.mod) \o "." \o ReprOfType(t), imports |-> imps]

_repr_type_dialect(t, o, im, imps) ==
    LET impl_rt == impl_render_type(im, t)
        imps2 == imps \cup {"from sqlalchemy.dialects import " \o Dname(t.mod)}
    IN IF impl_rt # None
         THEN [text |-> impl_rt, imports |-> imps2]
         ELSE [text |-> Dname(t.mod) \o "." \o ReprOfType(t), imports |-> imps2]

\* a rendering [text, imports] with the collaborators that were asked for it
WithAsked(r, asked) == [text |-> r.text, imports |-> r.imports, asked |-> asked]

\* a _repr_type that asks the dialect implementation before the hook
_repr_type_impl_first(t, o, im, imps) ==
    LET rendered == _user_defined_render("type", o)
        impl_rt == impl_render_type(im, t)
    IN IF impl_rt # None
         THEN [text |-> impl_rt, imports |-> imps, asked |-> <<"impl">>]
         ELSE [text |-> IF rendered # False THEN rendered
                        ELSE _sqlalchemy_autogenerate_prefix(o) \o ReprOfType(t),
               imports |-> imps, asked |-> <<"impl", "render_item">>]

\* [text, imports, asked]: asked lists the collaborators that were called for
\* this type, in order: the render_item hook when one is configured, the
\* dialect implementation when the Context has one and the hook did not render
_repr_type(t, o, im, imps) ==
    LET rendered == _user_defined_render("type", o)
        impl_rt == impl_render_type(im, t)
        hook == IF o.render_item # None THEN <<"render_item">> ELSE <<>>
        r == IF IsDialectMod(t.mod) THEN _repr_type_dialect(t, o, im, imps)
             ELSE IF impl_rt # None THEN [text |-> impl_rt, imports |-> imps]
             ELSE IF IsSqlalchemyMod(t.mod)
               THEN IF t.cls = "Variant" THEN _render_Variant_type(t, o, im, imps)
                    ELSE IF t.cls = "ARRAY" THEN _render_ARRAY_type(t, o, im, imps)
                    ELSE [text |-> _sqlalchemy_autogenerate_prefix(o) \o ReprOfType(t),
                          imports |-> imps]
               ELSE [text |-> _user_autogenerate_prefix(o, t) \o ReprOfType(t),
                     imports |-> imps]
    IN IF rendered # False THEN [text |-> rendered, imports |-> imps, asked |-> hook]
       ELSE WithAsked(r, hook \o (IF im # "absent" THEN <<"impl">> ELSE <<>>))

(***************************************************************************)
(* Text helpers                                                            *)
(***************************************************************************)
\* sep.join(parts)
RECURSIVE Join(_, _)
Join(parts, sep) ==
    IF parts = <<>> THEN ""
    ELSE IF Len(parts) = 1 THEN parts[1]
    ELSE LET h == Len(parts) \div 2
         IN Join(SubSeq(parts, 1, h), sep) \o sep \o Join(SubSeq(parts, h + 1, Len(parts)), sep)

\* repr() of a list of str
ReprList(names) == "[" \o Join([i \in DOMAIN names |-> Repr(names[i])], ", ") \o "]"

\* ["%s=%s" % (k, v) for k, v in opts]
KwTexts(pairs) == [i \in DOMAIN pairs |-> pairs[i][1] \o "=" \o pairs[i][2]]

\* a constraint or index name: [conv, text]; conv marks a naming-convention name
Name(text) == [conv |-> FALSE, text |-> text]
ConvName(text) == [conv |-> TRUE, text |-> text]
NoName == [conv |-> FALSE, text |-> None]

\* repr(_render_gen_name(autogen_context, name)): _f_name.__repr__ for a conv name
_render_gen_name(o, has_batch, name) ==
    IF name.conv
      THEN _alembic_autogenerate_prefix(o, has_batch) \o "f(" \o Repr(_ident(name.text)) \o ")"
      ELSE Repr(name.text)

(***************************************************************************)
(* Server defaults: [k, arg, quoted]; k is "None", "False" (AlterColumn's  *)
(* not-supplied marker) or "DefaultClause" with a str arg, written with    *)
(* surrounding quotes when quoted.                                         *)
(***************************************************************************)
NoneSD == [k |-> "None", arg |-> "", quoted |-> FALSE]
FalseSD == [k |-> "False", arg |-> "", quoted |-> FALSE]
TextSD(s, q) == [k |-> "DefaultClause", arg |-> s, quoted |-> q]

\* bool(default)
SDTruthy(d) == d.k = "DefaultClause"

(***************************************************************************)
(* Identity server defaults: [k, always, on_null, start, increment, ...].  *)
(***************************************************************************)
\* sqla_compat._identity_options_attrs
_identity_options_attrs ==
    <<"start", "increment", "minvalue", "maxvalue", "nominvalue", "nomaxvalue", "cycle",
      "cache", "order">>

Identity(always, on_null, start, increment, cycle, order) ==
    [k |-> "Identity", always |-> always, on_null |-> on_null, start |-> start,
     increment |-> increment, minvalue |-> None, maxvalue |-> None, nominvalue |-> None,
     nomaxvalue |-> None, cycle |-> cycle, cache |-> None, order |-> order]

\* the <<attr, value>> pairs of the option attributes that are not None
RECURSIVE OptionsFrom(_, _)
OptionsFrom(identity, attrs) ==
    IF attrs = <<>> THEN <<>>
    ELSE (IF identity[Head(attrs)] # None
            THEN << <<Head(attrs), identity[Head(attrs)]>> >> ELSE <<>>)
         \o OptionsFrom(identity, Tail(attrs))

_get_identity_options(identity) == OptionsFrom(identity, _identity_options_attrs)

\* ", ".join("%s=%s" % pair for pair in kwargs.items())
KwargsText(kwargs) == Join([i \in DOMAIN kwargs |-> kwargs[i][1] \o "=" \o kwargs[i][2]], ", ")

\* a _render_identity that leaves out an always that is not set
_render_identity_if_set(identity, o) ==
    LET kwargs == (IF identity.always = True THEN << <<"always", identity.always>> >>
                                             ELSE <<>>)
                  \o (IF identity.on_null # None THEN << <<"on_null", identity.on_null>> >>
                                                 ELSE <<>>)
                  \o _get_identity_options(identity)
    IN [kwargs |-> kwargs,
        text |-> _sqlalchemy_autogenerate_prefix(o) \o "Identity(" \o KwargsText(kwargs) \o ")"]

\* [kwargs, text]
_render_identity(identity, o) ==
    LET kwargs == << <<"always", identity.always>> >>
                  \o (IF identity.on_null # None THEN << <<"on_null", identity.on_null>> >>
                                                 ELSE <<>>)
                  \o _get_identity_options(identity)
    IN [kwargs |-> kwargs,
        text |-> _sqlalchemy_autogenerate_prefix(o) \o "Identity(" \o KwargsText(kwargs) \o ")"]

\* repr(re.sub(r"^'|'$", "", default.arg)): the quotes of a quoted arg are
\* dropped before repr() adds its own
_render_server_default(d, o) ==
    LET rendered == _user_defined_render("server_default", o)
    IN IF rendered # False THEN rendered
       ELSE IF d.k = "Identity" THEN _render_identity(d, o).text
       ELSE IF d.k = "DefaultClause" THEN Repr(d.arg)
       ELSE d.k

(***************************************************************************)
(* Columns: [name, type, nullable, server_default, autoincrement, system,  *)
(* comment]                                                                *)
(***************************************************************************)
Column(name, type) ==
    [name |-> name, type |-> type, nullable |-> True, server_default |-> NoneSD,
     autoincrement |-> "auto", system |-> FALSE, comment |-> None]

\* "%(prefix)sColumn(%(name)r, %(type)s, %(kwargs)s)", ty the rendered type
ColumnText(column, o, kw, ty) ==
    [text |-> _sqlalchemy_autogenerate_prefix(o) \o "Column("
                \o Repr(_ident(column.name)) \o ", " \o ty.text \o ", "
                \o Join(KwTexts(kw), ", ") \o ")",
     imports |-> ty.imports]

_render_column(column, o, im, imps) ==
    LET rendered == _user_defined_render("column", o)
        sd == IF SDTruthy(column.server_default)
                THEN <<<<"server_default", _render_server_default(column.server_default, o)>>>>
                ELSE <<>>
        kw == sd
              \o (IF column.autoincrement # None /\ column.autoincrement # "auto"
                    THEN <<<<"autoincrement", column.autoincrement>>>> ELSE <<>>)
              \o (IF column.nullable # None THEN <<<<"nullable", column.nullable>>>> ELSE <<>>)
              \o (IF column.system THEN <<<<"system", True>>>> ELSE <<>>)
              \o (IF column.comment # None THEN <<<<"comment", Repr(column.comment)>>>> ELSE <<>>)
    IN IF rendered # False THEN [text |-> rendered, imports |-> imps]
       ELSE ColumnText(column, o, kw, _repr_type(column.type, o, im, imps))

(***************************************************************************)
(* Table constraints: [kind, name, columns, table_name, table_schema,      *)
(* deferrable, initially, sqltext, type_bound, elements, onupdate,         *)
(* ondelete, use_alter].  type_bound: the check constraint's _create_rule  *)
(* targets a type.  A foreign key element is [parent, colspec,             *)
(* link_to_name, has_table]; colspec is the dotted reference as tokens.    *)
(* A namespace is [schema, tables]; tables is a set of                     *)
(* <<table fullname, column key, column name>>.                            *)
(***************************************************************************)
Constraint(kind, name, columns) ==
    [kind |-> kind, name |-> name, columns |-> columns, table_name |-> "t",
     table_schema |-> None, deferrable |-> None, initially |-> None,
     sqltext |-> "", type_bound |-> FALSE, elements |-> <<>>,
     onupdate |-> None, ondelete |-> None, use_alter |-> FALSE]

\* util.Dispatcher.dispatch(obj): it fails with ValueError when the registry
\* holds no renderer for the kind of obj
DispatchFails(kind, registry) == kind \notin registry

\* _constraint_renderers: the constraint kinds with a registered renderer
ConstraintKinds == {"PrimaryKeyConstraint", "ForeignKeyConstraint", "UniqueConstraint",
                    "CheckConstraint"}

_uq_constraint(c, o, has_batch, alter) ==
    LET kw == (IF c.deferrable # None THEN <<<<"deferrable", Repr(c.deferrable)>>>> ELSE <<>>)
              \o (IF c.initially # None THEN <<<<"initially", Repr(c.initially)>>>> ELSE <<>>)
              \o (IF ~has_batch /\ alter /\ c.table_schema # None
                    THEN <<<<"schema", Repr(_ident(c.table_schema))>>>> ELSE <<>>)
              \o (IF ~alter /\ c.name.text # None
                    THEN <<<<"name", _render_gen_name(o, has_batch, c.name)>>>> ELSE <<>>)
    IN IF alter
         THEN [prefix |-> _alembic_autogenerate_prefix(o, has_batch),
               fn |-> "create_unique_constraint",
               args |-> <<<<"name", _render_gen_name(o, has_batch, c.name)>>>>
                        \o (IF ~has_batch THEN <<<<"table_name", Repr(_ident(c.table_name))>>>>
                                          ELSE <<>>)
                        \o <<<<"columns", ReprList(c.columns)>>>> \o kw]
         ELSE [prefix |-> _sqlalchemy_autogenerate_prefix(o),
               fn |-> "UniqueConstraint",
               args |-> [i \in DOMAIN c.columns |-> <<"column", Repr(_ident(c.columns[i]))>>]
                        \o kw]

\* the text of a rendered UniqueConstraint(...): the columns are positional,
\* the options are written k=v
ArgText(a) == IF a[1] = "column" THEN a[2] ELSE a[1] \o "=" \o a[2]
LineText(l) == l.prefix \o l.fn \o "(" \o Join([i \in DOMAIN l.args |-> ArgText(l.args[i])], ", ") \o ")"

\* a _render_primary_key that renders a primary key without columns
_render_primary_key_empty(c, o, has_batch) ==
    LET rendered == _user_defined_render("primary_key", o)
    IN IF rendered # False THEN rendered
       ELSE _sqlalchemy_autogenerate_prefix(o) \o "PrimaryKeyConstraint("
              \o Join([i \in DOMAIN c.columns |-> Repr(c.columns[i])], ", ") \o ")"

_render_primary_key(c, o, has_batch) ==
    LET rendered == _user_defined_render("primary_key", o)
        kw == IF c.name.text # None
                THEN <<"name=" \o _render_gen_name(o, has_batch, c.name)>> ELSE <<>>
    IN IF rendered # False THEN rendered
       ELSE IF c.columns = <<>> THEN None
       ELSE _sqlalchemy_autogenerate_prefix(o) \o "PrimaryKeyConstraint("
              \o Join([i \in DOMAIN c.columns |-> Repr(c.columns[i])] \o kw, ", ") \o ")"

\* ".".join(tokens)
Dotted(tokens) == Join(tokens, ".")

\* namespace_metadata.tables[table_fullname].c.get(colname): the column's
\* name, None when the table has no column under that key
NamespaceColumn(ns, fullname, key) ==
    IF \E r \in ns.tables : r[1] = fullname /\ r[2] = key
      THEN (CHOOSE r \in ns.tables : r[1] = fullname /\ r[2] = key)[3]
      ELSE None

\* a foreign key element: the local column, the reference as dotted tokens
ForeignKey(parent, colspec, link_to_name) ==
    [parent |-> parent, colspec |-> colspec, link_to_name |-> link_to_name,
     has_table |-> TRUE]

\* an _fk_colspec that keeps the column token as it was specified
_fk_colspec_key(fk, metadata_schema, ns) ==
    LET n == Len(fk.colspec)
    IN (IF metadata_schema # None /\ n = 2
          THEN metadata_schema \o "." \o fk.colspec[n - 1]
          ELSE Dotted(SubSeq(fk.colspec, 1, n - 1)))
       \o "." \o fk.colspec[n]

_fk_colspec(fk, metadata_schema, ns) ==
    LET tokens == fk.colspec
        n == Len(tokens)
        tname == tokens[n - 1]
        colname == tokens[n]
        table_fullname == IF metadata_schema # None /\ n = 2
                            THEN metadata_schema \o "." \o tname
                            ELSE Dotted(SubSeq(tokens, 1, n - 1))
        col == NamespaceColumn(ns, table_fullname, colname)
        colname2 == IF ~fk.link_to_name /\ fk.has_table
                       /\ (\E r \in ns.tables : r[1] = table_fullname) /\ col # None
                      THEN _ident(col) ELSE colname
    IN table_fullname \o "." \o colname2

_populate_render_fk_opts(c) ==
    (IF c.onupdate # None THEN <<"onupdate=" \o Repr(c.onupdate)>> ELSE <<>>)
    \o (IF c.ondelete # None THEN <<"ondelete=" \o Repr(c.ondelete)>> ELSE <<>>)
    \o (IF c.initially # None THEN <<"initially=" \o Repr(c.initially)>> ELSE <<>>)
    \o (IF c.deferrable # None THEN <<"deferrable=" \o Repr(c.deferrable)>> ELSE <<>>)
    \o (IF c.use_alter THEN <<"use_alter=True">> ELSE <<>>)

\* the text of a ForeignKeyConstraint(...) whose references render as refcols
FkText(c, o, has_batch, refcols) ==
    LET kw == (IF c.name.text # None
                 THEN <<"name=" \o _render_gen_name(o, has_batch, c.name)>> ELSE <<>>)
              \o _populate_render_fk_opts(c)
    IN _sqlalchemy_autogenerate_prefix(o) \o "ForeignKeyConstraint(["
         \o Join([i \in DOMAIN c.elements |-> Repr(_ident(c.elements[i].parent))], ", ")
         \o "], ["
         \o Join([i \in DOMAIN refcols |-> Repr(refcols[i])], ", ")
         \o "], " \o Join(kw, ", ") \o ")"

_render_foreign_key(c, o, has_batch, ns) ==
    LET rendered == _user_defined_render("foreign_key", o)
    IN IF rendered # False THEN rendered
       ELSE FkText(c, o, has_batch,
                   [i \in DOMAIN c.elements |-> _fk_colspec(c.elements[i], ns.schema, ns)])

_render_unique_constraint(c, o, has_batch) ==
    LET rendered == _user_defined_render("unique", o)
    IN IF rendered # False THEN rendered
       ELSE LineText(_uq_constraint(c, o, has_batch, FALSE))

_render_check_constraint(c, o, has_batch) ==
    LET rendered == _user_defined_render("check", o)
    IN IF rendered # False THEN rendered
       ELSE IF c.type_bound THEN None
       ELSE _sqlalchemy_autogenerate_prefix(o) \o "CheckConstraint(" \o Repr(c.sqltext)
              \o (IF c.name.text # None
                    THEN ", name=" \o _render_gen_name(o, has_batch, c.name) ELSE "")
              \o ")"

\* renderer(constraint, autogen_context, namespace_metadata) of a registered kind
DispatchConstraint(c, o, has_batch, ns) ==
    CASE c.kind = "PrimaryKeyConstraint" -> _render_primary_key(c, o, has_batch)
      [] c.kind = "ForeignKeyConstraint" -> _render_foreign_key(c, o, has_batch, ns)
      [] c.kind = "UniqueConstraint" -> _render_unique_constraint(c, o, has_batch)
      [] c.kind = "CheckConstraint" -> _render_check_constraint(c, o, has_batch)

\* [text, warned, raised]: text is None when the constraint renders as absent
_render_constraint(c, o, has_batch, ns) ==
    IF DispatchFails(c.kind, ConstraintKinds)
      THEN [text |-> "[Unknown Python object " \o c.kind \o "()]", warned |-> TRUE,
            raised |-> None]
      ELSE [text |-> DispatchConstraint(c, o, has_batch, ns), warned |-> FALSE,
            raised |-> None]

(***************************************************************************)
(* Operations.  One record shape for every kind; a renderer reads only the *)
(* fields of its kind.  ModifyTableOps containers are not values of this   *)
(* shape: their children are rendered one render_op call at a time.        *)
(***************************************************************************)
NoNamespace == [schema |-> None, tables |-> {}]

Op(kind) ==
    [kind |-> kind, table_name |-> "t", schema |-> None,
     column |-> Column("c", Integer), column_name |-> "c",
     modify_server_default |-> FalseSD, modify_type |-> <<>>, modify_nullable |-> None,
     modify_comment |-> False, autoincrement |-> None,
     existing_type |-> <<>>, existing_nullable |-> None, existing_comment |-> None,
     existing_server_default |-> NoneSD,
     comment |-> None,
     name |-> Name("n"), columns |-> <<"c">>, unique |-> None,
     deferrable |-> None, initially |-> None, constraint_type |-> "unique",
     referent_table |-> "r", local_cols |-> <<"c">>, remote_cols |-> <<"id">>,
     source_schema |-> None, referent_schema |-> None,
     sqltext |-> "SELECT 1", sqltext_is_str |-> TRUE,
     table_columns |-> <<>>, table_constraints |-> <<>>, namespace |-> NoNamespace]

\* a rendered statement
Line(prefix, fn, args) == [prefix |-> prefix, fn |-> fn, args |-> args]
\* a line that is not a call: a marker comment, pass, the batch header's end
Plain(text) == Line("", text, <<>>)

\* what a renderer returns: its lines, the import set it leaves, the
\* exception it raised (None when it returned) and the warnings it emitted
Returned(lines, imps) == [lines |-> lines, imports |-> imps, raised |-> None, warned |-> 0]
Raised(name, imps) == [lines |-> <<>>, imports |-> imps, raised |-> name, warned |-> 0]

_render_create_table_comment(op, o, im, hb, imps) ==
    Returned(<<Line(_alembic_autogenerate_prefix(o, hb), "create_table_comment",
                    << <<"tname", "'" \o op.table_name \o "'">>,
                       <<"comment", Repr(op.comment)>>,
                       <<"existing_comment", Repr(op.existing_comment)>>,
                       <<"schema", Repr(op.schema)>> >>)>>, imps)

_render_drop_table_comment(op, o, im, hb, imps) ==
    Returned(<<Line(_alembic_autogenerate_prefix(o, hb), "drop_table_comment",
                    << <<"tname", "'" \o op.table_name \o "'">>,
                       <<"existing_comment", Repr(op.existing_comment)>>,
                       <<"schema", Repr(op.schema)>> >>)>>, imps)

_drop_table(op, o, im, hb, imps) ==
    Returned(<<Line(_alembic_autogenerate_prefix(o, hb), "drop_table",
                    << <<"tname", Repr(_ident(op.table_name))>> >>
                    \o (IF op.schema # None THEN << <<"schema", Repr(_ident(op.schema))>> >>
                                            ELSE <<>>))>>, imps)

_add_index(op, o, im, hb, imps) ==
    Returned(<<Line(_alembic_autogenerate_prefix(o, hb), "create_index",
                    << <<"name", _render_gen_name(o, hb, op.name)>> >>
                    \o (IF hb THEN <<>> ELSE << <<"table", Repr(_ident(op.table_name))>> >>)
                    \o << <<"columns", ReprList(op.columns)>>,
                          <<"unique", IF op.unique = None THEN False ELSE op.unique>> >>
                    \o (IF ~hb /\ op.schema # None
                          THEN << <<"schema", Repr(_ident(op.schema))>> >> ELSE <<>>))>>, imps)

_drop_index(op, o, im, hb, imps) ==
    Returned(<<Line(_alembic_autogenerate_prefix(o, hb), "drop_index",
                    << <<"name", _render_gen_name(o, hb, op.name)>> >>
                    \o (IF hb THEN <<>>
                        ELSE << <<"table_name", Repr(_ident(op.table_name))>> >>
                             \o (IF op.schema # None
                                   THEN << <<"schema", Repr(_ident(op.schema))>> >>
                                   ELSE <<>>)))>>, imps)

\* op.to_constraint() of a CreateUniqueConstraintOp
UniqueOfOp(op) ==
    [Constraint("UniqueConstraint", op.name, op.columns) EXCEPT
        !.table_name = op.table_name, !.table_schema = op.schema,
        !.deferrable = op.deferrable, !.initially = op.initially]

_add_unique_constraint(op, o, im, hb, imps) ==
    Returned(<<_uq_constraint(UniqueOfOp(op), o, hb, TRUE)>>, imps)

\* an _add_fk_constraint that keeps source_schema inside a batch block
_add_fk_constraint_schema(op, o, im, hb, imps) ==
    Returned(<<Line(_alembic_autogenerate_prefix(o, hb), "create_foreign_key",
                    << <<"name", _render_gen_name(o, hb, op.name)>> >>
                    \o (IF ~hb THEN << <<"source_table", Repr(_ident(op.table_name))>> >>
                               ELSE <<>>)
                    \o << <<"referent_table", Repr(_ident(op.referent_table))>>,
                          <<"local_cols", ReprList(op.local_cols)>>,
                          <<"remote_cols", ReprList(op.remote_cols)>> >>
                    \o (IF op.source_schema # None
                          THEN << <<"source_schema", Repr(op.source_schema)>> >> ELSE <<>>)
                    \o (IF op.referent_schema # None
                          THEN << <<"referent_schema", Repr(op.referent_schema)>> >>
                          ELSE <<>>))>>, imps)

_add_fk_constraint(op, o, im, hb, imps) ==
    Returned(<<Line(_alembic_autogenerate_prefix(o, hb), "create_foreign_key",
                    << <<"name", _render_gen_name(o, hb, op.name)>> >>
                    \o (IF ~hb THEN << <<"source_table", Repr(_ident(op.table_name))>> >>
                               ELSE <<>>)
                    \o << <<"referent_table", Repr(_ident(op.referent_table))>>,
                          <<"local_cols", ReprList(op.local_cols)>>,
                          <<"remote_cols", ReprList(op.remote_cols)>> >>
                    \o (IF ~hb /\ op.source_schema # None
                          THEN << <<"source_schema", Repr(op.source_schema)>> >> ELSE <<>>)
                    \o (IF op.referent_schema # None
                          THEN << <<"referent_schema", Repr(op.referent_schema)>> >>
                          ELSE <<>>))>>, imps)

_add_pk_constraint(op, o, im, hb, imps) == Raised("NotImplementedError", imps)

_add_check_constraint(op, o, im, hb, imps) == Raised("NotImplementedError", imps)

_drop_constraint(op, o, im, hb, imps) ==
    Returned(<<Line(_alembic_autogenerate_prefix(o, hb), "drop_constraint",
                    << <<"name", _render_gen_name(o, hb, op.name)>> >>
                    \o (IF hb THEN <<>>
                        ELSE << <<"table_name", "'" \o _ident(op.table_name) \o "'">> >>
                             \o (IF op.schema # None
                                   THEN << <<"schema", Repr(_ident(op.schema))>> >>
                                   ELSE <<>>))
                    \o << <<"type_", Repr(op.constraint_type)>> >>)>>, imps)

_add_column(op, o, im, hb, imps) ==
    LET col == _render_column(op.column, o, im, imps)
    IN Returned(<<Line(_alembic_autogenerate_prefix(o, hb), "add_column",
                       (IF hb THEN <<>> ELSE << <<"tname", Repr(op.table_name)>> >>)
                       \o << <<"column", col.text>> >>
                       \o (IF ~hb /\ op.schema # None
                             THEN << <<"schema", Repr(op.schema)>> >> ELSE <<>>))>>,
                col.imports)

_drop_column(op, o, im, hb, imps) ==
    Returned(<<Line(_alembic_autogenerate_prefix(o, hb), "drop_column",
                    (IF hb THEN <<>> ELSE << <<"tname", Repr(_ident(op.table_name))>> >>)
                    \o << <<"cname", Repr(_ident(op.column_name))>> >>
                    \o (IF ~hb /\ op.schema # None
                          THEN << <<"schema", Repr(_ident(op.schema))>> >> ELSE <<>>))>>, imps)

\* an _alter_column that echoes existing_nullable whenever it is known
_alter_column_echo(op, o, im, hb, imps) ==
    Returned(<<Line(_alembic_autogenerate_prefix(o, hb), "alter_column",
          (IF hb THEN <<>> ELSE << <<"tname", Repr(op.table_name)>> >>)
          \o << <<"cname", Repr(op.column_name)>> >>
          \o (IF op.modify_nullable # None
                THEN << <<"nullable", op.modify_nullable>> >> ELSE <<>>)
          \o (IF op.existing_nullable # None
                THEN << <<"existing_nullable", op.existing_nullable>> >> ELSE <<>>))>>,
        imps)

_alter_column(op, o, im, hb, imps) ==
    LET et == IF op.existing_type # <<>>
                THEN _repr_type(op.existing_type[1], o, im, imps)
                ELSE [text |-> None, imports |-> imps]
        mt == IF op.modify_type # <<>>
                THEN _repr_type(op.modify_type[1], o, im, et.imports)
                ELSE [text |-> None, imports |-> et.imports]
    IN Returned(<<Line(_alembic_autogenerate_prefix(o, hb), "alter_column",
          (IF hb THEN <<>> ELSE << <<"tname", Repr(op.table_name)>> >>)
          \o << <<"cname", Repr(op.column_name)>> >>
          \o (IF op.existing_type # <<>> THEN << <<"existing_type", et.text>> >> ELSE <<>>)
          \o (IF op.modify_server_default # FalseSD
                THEN << <<"server_default",
                          _render_server_default(op.modify_server_default, o)>> >>
                ELSE <<>>)
          \o (IF op.modify_type # <<>> THEN << <<"type_", mt.text>> >> ELSE <<>>)
          \o (IF op.modify_nullable # None
                THEN << <<"nullable", op.modify_nullable>> >> ELSE <<>>)
          \o (IF op.modify_comment # False
                THEN << <<"comment", Repr(op.modify_comment)>> >> ELSE <<>>)
          \o (IF op.existing_comment # None
                THEN << <<"existing_comment", Repr(op.existing_comment)>> >> ELSE <<>>)
          \o (IF op.modify_nullable = None /\ op.existing_nullable # None
                THEN << <<"existing_nullable", op.existing_nullable>> >> ELSE <<>>)
          \o (IF op.autoincrement # None
                THEN << <<"autoincrement", op.autoincrement>> >> ELSE <<>>)
          \o (IF op.modify_server_default = FalseSD /\ SDTruthy(op.existing_server_default)
                THEN << <<"existing_server_default",
                          _render_server_default(op.existing_server_default, o)>> >>
                ELSE <<>>)
          \o (IF op.schema # None /\ ~hb THEN << <<"schema", Repr(op.schema)>> >> ELSE <<>>))>>,
        mt.imports)

\* an _execute_sql that accepts any payload
_execute_sql_any(op, o, im, hb, imps) ==
    Returned(<<Line("op.", "execute", << <<"sqltext", Repr(op.sqltext)>> >>)>>, imps)

_execute_sql(op, o, im, hb, imps) ==
    IF ~op.sqltext_is_str THEN Raised("NotImplementedError", imps)
    ELSE Returned(<<Line("op.", "execute", << <<"sqltext", Repr(op.sqltext)>> >>)>>, imps)

MAX_PYTHON_ARGS == 255

\* the column renders of a table that are not empty, threading the import
\* set: [texts, imports]
RECURSIVE RenderColumns(_, _, _, _)
\* `if rcol`: the render of one column, kept when it is not empty
OneColumn(c) == [texts |-> IF c.text # "" THEN <<c.text>> ELSE <<>>, imports |-> c.imports]

\* the renders of the first columns followed by those of the columns after
\* them
AppendColumns(first, rest) ==
    [texts |-> first.texts \o rest.texts, imports |-> rest.imports]

\* the columns after the first ones are rendered with the imports these left
ThenColumns(first, cols, o, im) ==
    AppendColumns(first, RenderColumns(cols, o, im, first.imports))

RenderColumns(cols, o, im, imps) ==
    IF cols = <<>> THEN [texts |-> <<>>, imports |-> imps]
    ELSE IF Len(cols) = 1 THEN OneColumn(_render_column(cols[1], o, im, imps))
    ELSE ThenColumns(RenderColumns(SubSeq(cols, 1, Len(cols) \div 2), o, im, imps),
                     SubSeq(cols, Len(cols) \div 2 + 1, Len(cols)), o, im)

\* position of a rendered constraint's text in the lexical order of the
\* rendered texts, by how the text begins
TextRank(c, o) ==
    IF c.kind \notin ConstraintKinds THEN 0
    ELSE IF _user_defined_render(CASE c.kind = "PrimaryKeyConstraint" -> "primary_key"
                                   [] c.kind = "ForeignKeyConstraint" -> "foreign_key"
                                   [] c.kind = "UniqueConstraint" -> "unique"
                                   [] OTHER -> "check", o) # False THEN 1
    ELSE CASE c.kind = "CheckConstraint" -> 2
           [] c.kind = "ForeignKeyConstraint" -> 3
           [] c.kind = "PrimaryKeyConstraint" -> 4
           [] OTHER -> 5

\* sorted(): insert a <<rank, text>> pair into a sequence sorted by rank
RECURSIVE Insert(_, _)
Insert(p, sorted) ==
    IF sorted = <<>> THEN <<p>>
    ELSE IF p[1] < Head(sorted)[1] THEN <<p>> \o sorted
    ELSE <<Head(sorted)>> \o Insert(p, Tail(sorted))

\* the sorted renders `rest` of the constraints before one, with c, the
\* render of that one, sorted in at `rank` when it is not None
SortIn(rest, c, rank) ==
    IF rest.raised # None THEN rest
    ELSE IF c.raised # None
      THEN [texts |-> <<>>, warned |-> rest.warned, raised |-> c.raised]
      ELSE [texts |-> IF c.text # None THEN Insert(<<rank, c.text>>, rest.texts)
                                       ELSE rest.texts,
            warned |-> (IF c.warned THEN 1 ELSE 0) + rest.warned,
            raised |-> None]

\* the constraint renders that are not None, sorted: [texts, warned, raised]
RECURSIVE RenderConstraints(_, _, _, _)
RenderConstraints(cons, o, hb, ns) ==
    IF cons = <<>> THEN [texts |-> <<>>, warned |-> 0, raised |-> None]
    ELSE SortIn(RenderConstraints(SubSeq(cons, 1, Len(cons) - 1), o, hb, ns),
                _render_constraint(cons[Len(cons)], o, hb, ns),
                TextRank(cons[Len(cons)], o))

\* the positional arguments of create_table: one unpacked list above the
\* ceiling, else the arguments one by one
RenderedArgs(args, ceiling) ==
    IF Len(args) > ceiling
      THEN << <<"*args", "[" \o Join(args, ", ") \o "]">> >>
      ELSE [i \in DOMAIN args |-> <<"arg", args[i]>>]

\* _add_table from the rendered columns and constraints
CreateTable(op, o, hb, cols, cons, ceiling) ==
    IF cons.raised # None
      THEN [lines |-> <<>>, imports |-> cols.imports, raised |-> cons.raised,
            warned |-> cons.warned]
      ELSE [lines |-> <<Line(_alembic_autogenerate_prefix(o, hb), "create_table",
                             << <<"tablename", Repr(_ident(op.table_name))>> >>
                             \o RenderedArgs(cols.texts \o [i \in DOMAIN cons.texts |->
                                                             cons.texts[i][2]], ceiling)
                             \o (IF op.schema # None
                                   THEN << <<"schema", Repr(_ident(op.schema))>> >>
                                   ELSE <<>>)
                             \o (IF op.comment # None
                                   THEN << <<"comment", Repr(_ident(op.comment))>> >>
                                   ELSE <<>>))>>,
            imports |-> cols.imports, raised |-> None, warned |-> cons.warned]

\* an _add_table that switches to the unpacked list one argument early
_add_table_at_ceiling(op, o, im, hb, imps) ==
    CreateTable(op, o, hb, RenderColumns(op.table_columns, o, im, imps),
                RenderConstraints(op.table_constraints, o, hb, op.namespace),
                MAX_PYTHON_ARGS - 1)

_add_table(op, o, im, hb, imps) ==
    CreateTable(op, o, hb, RenderColumns(op.table_columns, o, im, imps),
                RenderConstraints(op.table_constraints, o, hb, op.namespace),
                MAX_PYTHON_ARGS)

(***************************************************************************)
(* renderers: the dispatch table.  dispatch() raises ValueError for a kind *)
(* that has no registered renderer; render_op does not catch it.           *)
(***************************************************************************)
LeafKinds == {"CreateTableCommentOp", "DropTableCommentOp", "CreateTableOp", "DropTableOp",
              "CreateIndexOp", "DropIndexOp", "CreateUniqueConstraintOp",
              "CreateForeignKeyOp", "CreatePrimaryKeyOp", "CreateCheckConstraintOp",
              "DropConstraintOp", "AddColumnOp", "DropColumnOp", "AlterColumnOp",
              "ExecuteSQLOp"}

\* renderer(autogen_context, op) of a registered kind
Dispatch(op, o, im, hb, imps) ==
    CASE op.kind = "CreateTableCommentOp" -> _render_create_table_comment(op, o, im, hb, imps)
      [] op.kind = "DropTableCommentOp" -> _render_drop_table_comment(op, o, im, hb, imps)
      [] op.kind = "CreateTableOp" -> _add_table(op, o, im, hb, imps)
      [] op.kind = "DropTableOp" -> _drop_table(op, o, im, hb, imps)
      [] op.kind = "CreateIndexOp" -> _add_index(op, o, im, hb, imps)
      [] op.kind = "DropIndexOp" -> _drop_index(op, o, im, hb, imps)
      [] op.kind = "CreateUniqueConstraintOp" -> _add_unique_constraint(op, o, im, hb, imps)
      [] op.kind = "CreateForeignKeyOp" -> _add_fk_constraint(op, o, im, hb, imps)
      [] op.kind = "CreatePrimaryKeyOp" -> _add_pk_constraint(op, o, im, hb, imps)
      [] op.kind = "CreateCheckConstraintOp" -> _add_check_constraint(op, o, im, hb, imps)
      [] op.kind = "DropConstraintOp" -> _drop_constraint(op, o, im, hb, imps)
      [] op.kind = "AddColumnOp" -> _add_column(op, o, im, hb, imps)
      [] op.kind = "DropColumnOp" -> _drop_column(op, o, im, hb, imps)
      [] op.kind = "AlterColumnOp" -> _alter_column(op, o, im, hb, imps)
      [] op.kind = "ExecuteSQLOp" -> _execute_sql(op, o, im, hb, imps)

\* a render_op that degrades to a placeholder for an unregistered kind
render_op_placeholder(op, o, im, hb, imps) ==
    IF ~DispatchFails(op.kind, LeafKinds) THEN Dispatch(op, o, im, hb, imps)
    ELSE [lines |-> <<Plain("[Unknown Python object " \o op.kind \o "()]")>>,
          imports |-> imps, raised |-> None, warned |-> 1]

\* render_op for every kind but ModifyTableOps
render_op(op, o, im, hb, imps) ==
    IF ~DispatchFails(op.kind, LeafKinds) THEN Dispatch(op, o, im, hb, imps)
    ELSE Raised("ValueError", imps)

(***************************************************************************)
(* AutogenContext._within_batch(): the scope that sets the inside-batch    *)
(* flag around a batch container's children and restores the prior value   *)
(* when the scope is left, by return or by exception.                      *)
(***************************************************************************)
_within_batch_enter(hb) == [flag |-> TRUE, saved |-> hb]
_within_batch_exit(saved, hb) == saved

(***************************************************************************)
(* _render_modify_table, one step at a time.  A frame is one active call:  *)
(* [lines, batch, saved, entered_with, nchildren, has_ops, table, schema]. *)
(***************************************************************************)
\* "with op.batch_alter_table(%r, schema=%r) as batch_op:"
BatchHeader(table, schema) ==
    Line("op.", "batch_alter_table",
         << <<"table_name", Repr(table)>>, <<"schema", Repr(schema)>> >>)

Frame(lines, batch, saved, hb, has_ops, table, schema) ==
    [lines |-> lines, batch |-> batch, saved |-> saved, entered_with |-> hb,
     nchildren |-> 0, has_ops |-> has_ops, table |-> table, schema |-> schema]

\* a _render_modify_table that renders the children outside the batch scope
_render_modify_table_begin_noscope(o, hb, has_ops, table, schema) ==
    IF has_ops
      THEN [entered |-> TRUE, flag |-> hb,
            frame |-> Frame(IF o.render_as_batch THEN <<BatchHeader(table, schema)>> ELSE <<>>,
                            FALSE, hb, hb, has_ops, table, schema)]
      ELSE [entered |-> FALSE, flag |-> hb,
            frame |-> Frame(<<>>, FALSE, hb, hb, has_ops, table, schema)]

\* a _render_modify_table without the test for children
_render_modify_table_begin_nocheck(o, hb, has_ops, table, schema) ==
    IF o.render_as_batch
      THEN [entered |-> TRUE, flag |-> _within_batch_enter(hb).flag,
            frame |-> Frame(<<BatchHeader(table, schema)>>, TRUE,
                            _within_batch_enter(hb).saved, hb, has_ops, table, schema)]
      ELSE [entered |-> TRUE, flag |-> hb,
            frame |-> Frame(<<>>, FALSE, hb, hb, has_ops, table, schema)]

\* the call up to its first child: [entered, flag, frame]; not entered when
\* op.ops is empty, and the call returns []
_render_modify_table_begin(o, hb, has_ops, table, schema) ==
    IF has_ops
      THEN IF o.render_as_batch
             THEN [entered |-> TRUE, flag |-> _within_batch_enter(hb).flag,
                   frame |-> Frame(<<BatchHeader(table, schema)>>, TRUE,
                                   _within_batch_enter(hb).saved, hb, has_ops, table, schema)]
             ELSE [entered |-> TRUE, flag |-> hb,
                   frame |-> Frame(<<>>, FALSE, hb, hb, has_ops, table, schema)]
      ELSE [entered |-> FALSE, flag |-> hb,
            frame |-> Frame(<<>>, FALSE, hb, hb, has_ops, table, schema)]

\* a _render_modify_table that returns without leaving the batch scope
_render_modify_table_end_stuck(f, hb) ==
    IF f.batch
      THEN [lines |-> f.lines \o <<Plain("")>>, flag |-> hb]
      ELSE [lines |-> f.lines, flag |-> hb]

\* the call after its last child: [lines, flag]
_render_modify_table_end(f, hb) ==
    IF f.batch
      THEN [lines |-> f.lines \o <<Plain("")>>, flag |-> _within_batch_exit(f.saved, hb)]
      ELSE [lines |-> f.lines, flag |-> hb]

\* an exception leaving the call: the flag after the scope's exit
_render_modify_table_raise(f, hb) ==
    IF f.batch THEN _within_batch_exit(f.saved, hb) ELSE hb

(***************************************************************************)
(* _render_cmd_body                                                        *)
(***************************************************************************)
StartMarker == Plain("# ### commands auto generated by Alembic - please adjust! ###")
EndMarker == Plain("# ### end Alembic commands ###")
Pass == Plain("pass")

\* a has_lines that remembers the latest operation only
HasLinesLatest(h, lines) == lines # <<>>

\* has_lines = has_lines or bool(lines)
HasLines(h, lines) == h \/ lines # <<>>

\* the lines after the loop: pass when nothing was written, the end marker
_render_cmd_body_end(b, h) == b \o (IF ~h THEN <<Pass>> ELSE <<>>) \o <<EndMarker>>

\* _indent(text), line by line: four spaces before every line, then the
\* text is stripped and trailing spaces are removed
_indent(lines) ==
    [i \in DOMAIN lines |->
        [indent |-> IF i = 1 \/ lines[i] = Plain("") THEN 0 ELSE 4, line |-> lines[i]]]

(***************************************************************************)
(* The operations of a script (Spec)                                       *)
(***************************************************************************)
UnknownConstraint == Constraint("ExcludeConstraint", Name("x"), <<"c">>)

AlterTypes == [Op("AlterColumnOp") EXCEPT !.existing_type = <<ARRAY(PG_UUID)>>,
                 !.modify_type = <<Variant(Integer, {<<"mysql", MY_TINYINT>>})>>]
UnknownOp == Op("CreateSequenceOp")
CreateWithUnknown == [Op("CreateTableOp") EXCEPT !.table_columns = <<Column("id", MY_TINYINT)>>,
                        !.table_constraints = <<UnknownConstraint>>]

ScriptOps == {AlterTypes, UnknownOp, CreateWithUnknown}

\* the record of a render_op call: the operation, the Context it was called
\* with (hb, imports_before, depth of enclosing containers) and what it
\* returned or raised and left in the Context (hb_after, imports_after)
NoCall == [kind |-> "none", op |-> Op("none"), has_ops |-> FALSE, hb |-> FALSE,
           lines |-> <<>>, raised |-> None, warned |-> 0, imports_before |-> {},
           imports_after |-> {}, hb_after |-> FALSE, depth |-> 0]

Call(op, has_ops, hb, r, before, depth, hb_after) ==
    [kind |-> op.kind, op |-> op, has_ops |-> has_ops, hb |-> hb, lines |-> r.lines,
     raised |-> r.raised, warned |-> r.warned, imports_before |-> before,
     imports_after |-> r.imports, hb_after |-> hb_after, depth |-> depth]

Running == pc \in {"upgrade", "downgrade"}

NoTemplateArgs == [keys |-> {}, upgrades |-> <<>>, downgrades |-> <<>>, imports |-> <<>>]

\* a MigrationScript: the operations of its two directions
MigrationScript(upgrade_ops, downgrade_ops) ==
    [upgrade_ops |-> upgrade_ops, downgrade_ops |-> downgrade_ops]
NoScript == MigrationScript(<<>>, <<>>)
NoPrior == [rendered |-> FALSE, template_args |-> NoTemplateArgs, exc |-> None,
            imports |-> {}]

Init ==
    /\ opts \in [render_as_batch : BOOLEAN, alembic_module_prefix : {"op."},
                 sqlalchemy_module_prefix : {"sa."}, user_module_prefix : {None},
                 render_item : {None, "type"}]
    /\ impl \in {"decline", "renders"}
    /\ _has_batch = FALSE
    /\ imports \in {{}, {"import myapp"}}
    /\ pc = "start"
    /\ stack = <<>>
    /\ buf = <<>>
    /\ has_lines = FALSE
    /\ nops = 0
    /\ template_args = NoTemplateArgs
    /\ exc = None
    /\ warnings = 0
    /\ emitted = <<>>
    /\ last = NoCall
    /\ migration_script = NoScript
    /\ prior = NoPrior

\* a render_op call returned `lines` to its caller: the enclosing
\* _render_modify_table extends its lines, _render_cmd_body writes them
Deliver(stk, lines) ==
    IF stk = <<>>
      THEN /\ buf' = buf \o lines
           /\ has_lines' = HasLines(has_lines, lines)
           /\ emitted' = emitted \o lines
           /\ stack' = stk
      ELSE /\ stack' = [stk EXCEPT ![Len(stk)].lines = @ \o lines,
                                   ![Len(stk)].nchildren = @ + 1]
           /\ UNCHANGED <<buf, has_lines, emitted>>

\* _render_python_into_templatevars enters the loop and calls
\* _render_cmd_body(upgrade_ops), which writes the leading marker
StartUpgrade ==
    /\ pc = "start"
    /\ pc' = "upgrade"
    /\ buf' = <<StartMarker>>
    /\ has_lines' = FALSE
    /\ emitted' = <<>>
    /\ UNCHANGED <<opts, impl, _has_batch, imports, stack, nops, template_args, exc,
                   warnings, last>>
    /\ UNCHANGED <<migration_script, prior>>

\* render_op on an operation that is not a container
RenderOp(op) ==
    /\ Running
    /\ nops < MaxOps
    /\ stack # <<>> => stack[Len(stack)].has_ops
    /\ LET r == render_op(op, opts, impl, _has_batch, imports)
       IN /\ imports' = r.imports
          /\ warnings' = warnings + r.warned
          /\ last' = Call(op, FALSE, _has_batch, r, imports, Len(stack), _has_batch)
          /\ nops' = nops + 1
          /\ IF r.raised # None
               THEN /\ exc' = r.raised
                    /\ pc' = "unwinding"
                    /\ UNCHANGED <<stack, buf, has_lines, emitted>>
               ELSE /\ Deliver(stack, r.lines)
                    /\ UNCHANGED <<exc, pc>>
    /\ UNCHANGED <<opts, impl, _has_batch, template_args>>
    /\ UNCHANGED <<migration_script, prior>>

\* render_op on a ModifyTableOps: up to its first child, or its return of
\* [] when it has no children
RenderModifyTable(has_ops, table, schema) ==
    /\ Running
    /\ nops < MaxOps
    /\ Len(stack) < MaxDepth
    /\ stack # <<>> => stack[Len(stack)].has_ops
    /\ LET b == _render_modify_table_begin(opts, _has_batch, has_ops, table, schema)
           op == [Op("ModifyTableOps") EXCEPT !.table_name = table, !.schema = schema]
       IN IF b.entered
            THEN /\ stack' = Append(stack, b.frame)
                 /\ _has_batch' = b.flag
                 /\ nops' = IF has_ops THEN nops ELSE nops + 1
                 /\ UNCHANGED <<buf, has_lines, emitted, last>>
            ELSE /\ Deliver(stack, <<>>)
                 /\ last' = Call(op, FALSE, _has_batch, Returned(<<>>, imports), imports,
                                 Len(stack), b.flag)
                 /\ nops' = nops + 1
                 /\ UNCHANGED _has_batch
    /\ UNCHANGED <<opts, impl, imports, pc, template_args, exc, warnings>>
    /\ UNCHANGED <<migration_script, prior>>

\* _render_modify_table after its last child: it returns its lines
ReturnModifyTable ==
    /\ Running
    /\ stack # <<>>
    /\ LET f == stack[Len(stack)]
           e == _render_modify_table_end(f, _has_batch)
           op == [Op("ModifyTableOps") EXCEPT !.table_name = f.table, !.schema = f.schema]
       IN /\ f.nchildren >= 1 \/ ~f.has_ops
          /\ _has_batch' = e.flag
          /\ Deliver(SubSeq(stack, 1, Len(stack) - 1), e.lines)
          /\ last' = Call(op, f.has_ops, f.entered_with, Returned(e.lines, imports), imports,
                          Len(stack) - 1, e.flag)
    /\ UNCHANGED <<opts, impl, imports, pc, nops, template_args, exc, warnings>>
    /\ UNCHANGED <<migration_script, prior>>

\* the exception leaves the innermost active _render_modify_table
UnwindModifyTable ==
    /\ pc = "unwinding"
    /\ stack # <<>>
    /\ _has_batch' = _render_modify_table_raise(stack[Len(stack)], _has_batch)
    /\ stack' = SubSeq(stack, 1, Len(stack) - 1)
    /\ UNCHANGED <<opts, impl, imports, pc, buf, has_lines, nops, template_args, exc,
                   warnings, emitted, last>>
    /\ UNCHANGED <<migration_script, prior>>

\* the exception leaves _render_cmd_body and _render_python_into_templatevars
Propagate ==
    /\ pc = "unwinding"
    /\ stack = <<>>
    /\ pc' = "raised"
    /\ UNCHANGED <<opts, impl, _has_batch, imports, stack, buf, has_lines, nops,
                   template_args, exc, warnings, emitted, last>>
    /\ UNCHANGED <<migration_script, prior>>

\* _render_cmd_body(upgrade_ops) after its loop; its indented text is stored
FinishUpgrade ==
    /\ pc = "upgrade"
    /\ stack = <<>>
    /\ buf' = _render_cmd_body_end(buf, has_lines)
    /\ template_args' = [template_args EXCEPT !.keys = @ \cup {"upgrades"},
                                              !.upgrades = _indent(buf')]
    /\ pc' = "upgraded"
    /\ UNCHANGED <<opts, impl, _has_batch, imports, stack, has_lines, nops, exc, warnings,
                   emitted, last>>
    /\ UNCHANGED <<migration_script, prior>>

\* _render_cmd_body(downgrade_ops) is called and writes the leading marker
StartDowngrade ==
    /\ pc = "upgraded"
    /\ pc' = "downgrade"
    /\ buf' = <<StartMarker>>
    /\ has_lines' = FALSE
    /\ emitted' = <<>>
    /\ UNCHANGED <<opts, impl, _has_batch, imports, stack, nops, template_args, exc,
                   warnings, last>>
    /\ UNCHANGED <<migration_script, prior>>

\* _render_cmd_body(downgrade_ops) after its loop; the loop of
\* _render_python_into_templatevars ends and the import block is stored
FinishDowngrade ==
    /\ pc = "downgrade"
    /\ stack = <<>>
    /\ buf' = _render_cmd_body_end(buf, has_lines)
    /\ template_args' = [template_args EXCEPT !.keys = @ \cup {"downgrades", "imports"},
                                              !.downgrades = _indent(buf'),
                                              !.imports = Sorted(imports)]
    /\ pc' = "done"
    /\ UNCHANGED <<opts, impl, _has_batch, imports, stack, has_lines, nops, exc, warnings,
                   emitted, last>>
    /\ UNCHANGED <<migration_script, prior>>

Next ==
    \/ StartUpgrade
    \/ \E op \in ScriptOps : RenderOp(op)
    \/ \E has_ops \in BOOLEAN : RenderModifyTable(has_ops, "t", None)
    \/ ReturnModifyTable
    \/ UnwindModifyTable
    \/ Propagate
    \/ FinishUpgrade
    \/ StartDowngrade
    \/ FinishDowngrade

Spec == Init /\ [][Next]_vars

(***************************************************************************)
(* SpecOps: one render_op call on one operation of any kind, at the top    *)
(* level of a direction or inside batch containers, under every option     *)
(* setting.                                                                *)
(***************************************************************************)
Schemas == {None, "s"}

AlterFieldOps ==
    {[Op("AlterColumnOp") EXCEPT !.modify_nullable = mn, !.existing_nullable = en,
         !.modify_comment = mc, !.existing_comment = ec,
         !.modify_server_default = msd, !.existing_server_default = esd] :
       mn \in {None, True, False}, en \in {None, True, False},
       mc \in {False, None, "new"}, ec \in {None, "old"},
       msd \in {FalseSD, NoneSD, TextSD("0", FALSE)}, esd \in {NoneSD, TextSD("1", TRUE)}}

AlterTypeOps ==
    {[Op("AlterColumnOp") EXCEPT !.existing_type = et, !.modify_type = mt, !.schema = sc,
         !.autoincrement = ai] :
       et \in {<<>>} \cup {<<t>> : t \in Types}, mt \in {<<>>, <<PG_UUID>>},
       sc \in Schemas, ai \in {None, True}}

AddColumnOps ==
    {[Op("AddColumnOp") EXCEPT !.column = [Column("c", t) EXCEPT !.server_default = sd],
         !.schema = sc] :
       t \in Types, sd \in {NoneSD, TextSD("0", TRUE)}, sc \in Schemas}

TableOps ==
    {[Op(k) EXCEPT !.schema = sc, !.comment = cm, !.existing_comment = ec] :
       k \in {"CreateTableCommentOp", "DropTableCommentOp", "DropTableOp", "DropColumnOp"},
       sc \in Schemas, cm \in {None, "cm"}, ec \in {None, "old"}}

NamedOps ==
    {[Op(k) EXCEPT !.schema = sc, !.source_schema = sc, !.name = nm, !.unique = u] :
       k \in {"CreateIndexOp", "DropIndexOp", "CreateUniqueConstraintOp",
              "CreateForeignKeyOp", "DropConstraintOp", "CreatePrimaryKeyOp",
              "CreateCheckConstraintOp"},
       sc \in Schemas, nm \in {Name("n"), ConvName("n")}, u \in {None, True}}

ExecuteOps == {[Op("ExecuteSQLOp") EXCEPT !.sqltext_is_str = b] : b \in BOOLEAN}

CreateTableOps ==
    {[Op("CreateTableOp") EXCEPT !.schema = sc, !.table_columns = <<Column("id", t)>>,
         !.table_constraints = cs] :
       sc \in Schemas, t \in {Integer, PG_UUID},
       cs \in {<<>>, <<UnknownConstraint>>,
               <<Constraint("UniqueConstraint", Name("u"), <<"id">>), UnknownConstraint,
                 Constraint("PrimaryKeyConstraint", NoName, <<"id">>)>>}}

\* namespaces: with and without a default schema, holding the remote table
\* under one of its possible full names, or not at all; the remote column
\* has key "key" and name "name"
Namespaces ==
    {[schema |-> sc, tables |-> ts] :
        sc \in Schemas,
        ts \in {{}, {<<"r", "key", "name">>}, {<<"s.r", "key", "name">>},
                {<<"x.r", "key", "name">>}, {<<"r", "other", "other">>}}}

ForeignKeys ==
    {ForeignKey("c", cs, l) : cs \in {<<"r", "key">>, <<"x", "r", "key">>}, l \in BOOLEAN}

FkOf(fk) == [Constraint("ForeignKeyConstraint", Name("fk"), <<"c">>) EXCEPT !.elements = <<fk>>]

CreateTableFkOps ==
    {[Op("CreateTableOp") EXCEPT !.table_columns = <<Column("c", Integer)>>,
         !.table_constraints = <<FkOf(fk)>>, !.namespace = ns] :
       fk \in ForeignKeys, ns \in Namespaces}

Ops == AlterFieldOps \cup AlterTypeOps \cup AddColumnOps \cup TableOps \cup NamedOps
         \cup ExecuteOps \cup CreateTableOps \cup CreateTableFkOps \cup {UnknownOp}

InitOps ==
    /\ opts \in [render_as_batch : {TRUE}, alembic_module_prefix : {None, "op."},
                 sqlalchemy_module_prefix : {"sa."}, user_module_prefix : {None},
                 render_item : RenderItemHooks]
    /\ impl \in ImplModes
    /\ _has_batch = FALSE
    /\ imports \in {{}, {"import myapp"}}
    /\ pc = "start"
    /\ stack = <<>>
    /\ buf = <<>>
    /\ has_lines = FALSE
    /\ nops = 0
    /\ template_args = NoTemplateArgs
    /\ exc = None
    /\ warnings = 0
    /\ emitted = <<>>
    /\ last = NoCall
    /\ migration_script = NoScript
    /\ prior = NoPrior

NextOps ==
    \/ StartUpgrade
    \/ nops = 0 /\ RenderModifyTable(TRUE, "t", None)
    \/ \E op \in Ops : nops = 0 /\ RenderOp(op)

SpecOps == InitOps /\ [][NextOps]_vars

(***************************************************************************)
(* One render_op call on a table around the argument ceiling, at the top   *)
(* level or inside a batch container.                                      *)
(***************************************************************************)
\* tables around the argument ceiling: n columns and no constraint, a
\* constraint that renders as absent, or one that renders
WideColumns(n) == [i \in 1..n |-> Column("c" \o ToString(i), Integer)]

WideTableOps ==
    {[Op("CreateTableOp") EXCEPT !.table_columns = WideColumns(n), !.table_constraints = cs] :
       n \in {MAX_PYTHON_ARGS - 1, MAX_PYTHON_ARGS, MAX_PYTHON_ARGS + 1},
       cs \in {<<>>, <<Constraint("PrimaryKeyConstraint", NoName, <<>>)>>,
               <<Constraint("UniqueConstraint", Name("u"), <<"c1">>)>>}}

InitWide ==
    /\ opts \in [render_as_batch : BOOLEAN, alembic_module_prefix : {"op."},
                 sqlalchemy_module_prefix : {"sa."}, user_module_prefix : {None},
                 render_item : {None, "column"}]
    /\ impl = "decline"
    /\ _has_batch = FALSE
    /\ imports \in {{}, {"import myapp"}}
    /\ pc = "start"
    /\ stack = <<>>
    /\ buf = <<>>
    /\ has_lines = FALSE
    /\ nops = 0
    /\ template_args = NoTemplateArgs
    /\ exc = None
    /\ warnings = 0
    /\ emitted = <<>>
    /\ last = NoCall
    /\ migration_script = NoScript
    /\ prior = NoPrior

NextWide ==
    \/ StartUpgrade
    \/ nops = 0 /\ RenderModifyTable(TRUE, "t", None)
    \/ \E op \in WideTableOps : nops = 0 /\ RenderOp(op)

SpecWide == InitWide /\ [][NextWide]_vars

(***************************************************************************)
(* One render_op call on a table with one or two constraints, with and     *)
(* without a render_item hook for constraints.                             *)
(***************************************************************************)
TableConstraints ==
    {Constraint("PrimaryKeyConstraint", NoName, <<>>),
     Constraint("PrimaryKeyConstraint", Name("pk"), <<"id">>),
     [Constraint("CheckConstraint", Name("ck"), <<>>) EXCEPT !.sqltext = "id > 0",
                                                             !.type_bound = TRUE],
     [Constraint("CheckConstraint", Name("ck"), <<>>) EXCEPT !.sqltext = "id > 0"],
     Constraint("UniqueConstraint", Name("u"), <<"id">>)}

ConstrainedTableOps ==
    {[Op("CreateTableOp") EXCEPT !.table_columns = <<Column("id", Integer)>>,
         !.table_constraints = cs] :
       cs \in {<<c>> : c \in TableConstraints}
              \cup {p \in {<<c, d>> : c \in TableConstraints, d \in TableConstraints} :
                      ~(p[1].kind = "PrimaryKeyConstraint" /\ p[2].kind = p[1].kind)}}

InitCons ==
    /\ opts \in [render_as_batch : {TRUE}, alembic_module_prefix : {"op."},
                 sqlalchemy_module_prefix : {"sa."}, user_module_prefix : {None},
                 render_item : {None, "decline", "primary_key", "check"}]
    /\ impl = "decline"
    /\ _has_batch = FALSE
    /\ imports \in {{}, {"import myapp"}}
    /\ pc = "start"
    /\ stack = <<>>
    /\ buf = <<>>
    /\ has_lines = FALSE
    /\ nops = 0
    /\ template_args = NoTemplateArgs
    /\ exc = None
    /\ warnings = 0
    /\ emitted = <<>>
    /\ last = NoCall
    /\ migration_script = NoScript
    /\ prior = NoPrior

NextCons ==
    \/ StartUpgrade
    \/ nops = 0 /\ RenderModifyTable(TRUE, "t", None)
    \/ \E op \in ConstrainedTableOps : nops = 0 /\ RenderOp(op)

SpecCons == InitCons /\ [][NextCons]_vars

(***************************************************************************)
(* One _repr_type call on a type, under every hook and implementation.     *)
(***************************************************************************)
InitType ==
    /\ opts \in [render_as_batch : {FALSE}, alembic_module_prefix : {"op."},
                 sqlalchemy_module_prefix : {"sa."}, user_module_prefix : {None},
                 render_item : RenderItemHooks]
    /\ impl \in ImplModes
    /\ _has_batch = FALSE
    /\ imports \in {{}, {"import myapp"}}
    /\ pc = "start"
    /\ stack = <<>>
    /\ buf = <<>>
    /\ has_lines = FALSE
    /\ nops = 0
    /\ template_args = NoTemplateArgs
    /\ exc = None
    /\ warnings = 0
    /\ emitted = <<>>
    /\ last = NoCall
    /\ migration_script = NoScript
    /\ prior = NoPrior

\* _repr_type(type_, autogen_context)
ReprType(t) ==
    /\ pc = "start"
    /\ LET r == _repr_type(t, opts, impl, imports)
       IN /\ imports' = r.imports
          /\ last' = [kind |-> "_repr_type", type |-> t, text |-> r.text, asked |-> r.asked,
                      imports_before |-> imports, imports_after |-> r.imports]
    /\ pc' = "typed"
    /\ UNCHANGED <<opts, impl, _has_batch, stack, buf, has_lines, nops, template_args, exc,
                   warnings, emitted, migration_script, prior>>

NextType == \E t \in Types : ReprType(t)

SpecType == InitType /\ [][NextType]_vars

(***************************************************************************)
(* One _render_identity call on an identity server default.                *)
(***************************************************************************)
Identities ==
    {Identity(al, on, st, inc, cy, ord) :
        al \in {None, True, False}, on \in {None, True, False}, st \in {None, "1"},
        inc \in {None, "2"}, cy \in {None, True}, ord \in {None, False}}

InitIdentity ==
    /\ opts \in [render_as_batch : {FALSE}, alembic_module_prefix : {"op."},
                 sqlalchemy_module_prefix : {None, "sa."}, user_module_prefix : {None},
                 render_item : {None}]
    /\ impl = "decline"
    /\ _has_batch = FALSE
    /\ imports = {}
    /\ pc = "start"
    /\ stack = <<>>
    /\ buf = <<>>
    /\ has_lines = FALSE
    /\ nops = 0
    /\ template_args = NoTemplateArgs
    /\ exc = None
    /\ warnings = 0
    /\ emitted = <<>>
    /\ last = NoCall
    /\ migration_script = NoScript
    /\ prior = NoPrior

\* _render_identity(identity, autogen_context)
RenderIdentity(identity) ==
    /\ pc = "start"
    /\ LET r == _render_identity(identity, opts)
       IN last' = [kind |-> "_render_identity", identity |-> identity, kwargs |-> r.kwargs,
                   text |-> r.text,
                   server_default |-> _render_server_default(identity, opts)]
    /\ pc' = "rendered"
    /\ UNCHANGED <<opts, impl, _has_batch, imports, stack, buf, has_lines, nops,
                   template_args, exc, warnings, emitted, migration_script, prior>>

NextIdentity == \E identity \in Identities : RenderIdentity(identity)

SpecIdentity == InitIdentity /\ [][NextIdentity]_vars

(***************************************************************************)
(* A whole script rendered in one step, and rendered again with the        *)
(* Context the first render left.  The tree is rendered by the operators   *)
(* of the stepwise model: a ModifyTableOps node is                         *)
(* [kind, table_name, schema, ops].                                        *)
(***************************************************************************)
ModifyTableOps(table, schema, ops) ==
    [kind |-> "ModifyTableOps", table_name |-> table, schema |-> schema, ops |-> ops]

\* what rendering leaves: lines, imports, the exception raised (or None),
\* warnings, the inside-batch flag, has_lines of the loop that rendered it
Outcome(lines, imps, raised, warned, flag, h) ==
    [lines |-> lines, imports |-> imps, raised |-> raised, warned |-> warned,
     flag |-> flag, has_lines |-> h]

RECURSIVE RenderNode(_, _, _, _, _)
RECURSIVE RenderNodes(_, _, _, _, _, _)

\* lines.extend(t_lines) / printer.writeline(line): the lines of an operation
\* followed by those of the operations after it; none when one of them raised
Extend(r, rest) ==
    Outcome(IF rest.raised # None THEN <<>> ELSE r.lines \o rest.lines,
            rest.imports, rest.raised, r.warned + rest.warned, rest.flag, rest.has_lines)

\* the loop after render_op returned r for its first operation
ThenRest(r, nodes, o, im, h) ==
    IF r.raised # None THEN r
    ELSE Extend(r, RenderNodes(nodes, o, im, r.flag, r.imports, HasLines(h, r.lines)))

\* the loop `for op in ops: lines = render_op(...)`, from has_lines = h
RenderNodes(nodes, o, im, hb, imps, h) ==
    IF nodes = <<>> THEN Outcome(<<>>, imps, None, 0, hb, h)
    ELSE ThenRest(RenderNode(Head(nodes), o, im, hb, imps), Tail(nodes), o, im, h)

\* what render_op left for an operation that is not a container
OfOp(r, hb) == Outcome(r.lines, r.imports, r.raised, r.warned, hb, FALSE)

\* _render_modify_table returns e.lines after its children left ch
Ended(e, ch) == Outcome(e.lines, ch.imports, None, ch.warned, e.flag, FALSE)

\* _render_modify_table after its loop over the children, which left ch
AfterChildren(b, ch) ==
    IF ch.raised # None
      THEN Outcome(<<>>, ch.imports, ch.raised, ch.warned,
                   _render_modify_table_raise(b.frame, ch.flag), FALSE)
      ELSE Ended(_render_modify_table_end([b.frame EXCEPT !.lines = @ \o ch.lines], ch.flag),
                 ch)

\* _render_modify_table from b, the call up to its first child
FromBegin(b, node, o, im, imps) ==
    IF ~b.entered THEN Outcome(<<>>, imps, None, 0, b.flag, FALSE)
    ELSE AfterChildren(b, RenderNodes(node.ops, o, im, b.flag, imps, FALSE))

\* render_op on any node
RenderNode(node, o, im, hb, imps) ==
    IF node.kind # "ModifyTableOps"
      THEN OfOp(render_op(node, o, im, hb, imps), hb)
      ELSE FromBegin(_render_modify_table_begin(o, hb, node.ops # <<>>, node.table_name,
                                                node.schema),
                     node, o, im, imps)

\* _render_cmd_body after its loop, which left r
AfterLoop(r) ==
    IF r.raised # None THEN r
    ELSE [r EXCEPT !.lines = _render_cmd_body_end(<<StartMarker>> \o r.lines, r.has_lines)]

_render_cmd_body(ops, o, im, hb, imps) == AfterLoop(RenderNodes(ops, o, im, hb, imps, FALSE))

\* what _render_python_into_templatevars leaves when its last
\* _render_cmd_body call left r: [template_args, imports, flag, raised, warned]
Left(targs, r, warned) ==
    [template_args |-> targs, imports |-> r.imports, flag |-> r.flag, raised |-> r.raised,
     warned |-> warned]

\* template_args[upgrade_ops.upgrade_token] = _indent(...)
StoreUpgrade(targs, up) ==
    [targs EXCEPT !.keys = @ \cup {"upgrades"}, !.upgrades = _indent(up.lines)]

\* template_args[downgrade_ops.downgrade_token] = _indent(...), and
\* template_args["imports"] after the loop
StoreDowngrade(targs, down) ==
    [targs EXCEPT !.keys = @ \cup {"downgrades", "imports"},
                  !.downgrades = _indent(down.lines), !.imports = Sorted(down.imports)]

\* after _render_cmd_body(downgrade_ops) left down
AfterDowngrade(up, down, targs) ==
    IF down.raised # None THEN Left(targs, down, up.warned + down.warned)
    ELSE Left(StoreDowngrade(targs, down), down, up.warned + down.warned)

\* after _render_cmd_body(upgrade_ops) left up
AfterUpgrade(up, script, targs, o, im) ==
    IF up.raised # None THEN Left(targs, up, up.warned)
    ELSE AfterDowngrade(up, _render_cmd_body(script.downgrade_ops, o, im, up.flag, up.imports),
                        StoreUpgrade(targs, up))

\* an exit that stores the import block also when a direction raised
StoreImports(r) ==
    IF r.raised = None THEN r
    ELSE [r EXCEPT !.template_args = [@ EXCEPT !.keys = @ \cup {"imports"},
                                               !.imports = Sorted(r.imports)]]

\* a _render_python_into_templatevars that stores the import block also when
\* a direction raised
_render_python_into_templatevars_finally(script, targs, o, im, hb, imps) ==
    StoreImports(AfterUpgrade(_render_cmd_body(script.upgrade_ops, o, im, hb, imps),
                              script, targs, o, im))

\* [template_args, imports, flag, raised, warned]
_render_python_into_templatevars(script, targs, o, im, hb, imps) ==
    AfterUpgrade(_render_cmd_body(script.upgrade_ops, o, im, hb, imps), script, targs, o, im)

\* the nodes of nesting depth at most d: an operation, an empty container,
\* a container of one node, a container of one node and one operation
RECURSIVE Nodes(_)
Nodes(d) ==
    IF d = 0 THEN ScriptOps
    ELSE Nodes(d - 1)
         \cup {ModifyTableOps("t", None, <<>>)}
         \cup {ModifyTableOps("t", None, <<n>>) : n \in Nodes(d - 1)}
         \cup {ModifyTableOps("t", None, <<n, AlterTypes>>) : n \in Nodes(d - 1)}

Scripts ==
    {MigrationScript(up, down) :
        up \in {<<>>} \cup {<<n>> : n \in Nodes(MaxDepth)}
                \cup {<<n, CreateWithUnknown>> : n \in Nodes(MaxDepth)},
        down \in {<<>>, <<AlterTypes>>, <<UnknownOp>>}}

InitTwice ==
    /\ opts \in [render_as_batch : BOOLEAN, alembic_module_prefix : {"op."},
                 sqlalchemy_module_prefix : {"sa."}, user_module_prefix : {None},
                 render_item : {None}]
    /\ impl \in {"decline", "renders"}
    /\ _has_batch = FALSE
    /\ imports \in {{}, {"import myapp"}}
    /\ pc = "start"
    /\ stack = <<>>
    /\ buf = <<>>
    /\ has_lines = FALSE
    /\ nops = 0
    /\ template_args = NoTemplateArgs
    /\ exc = None
    /\ warnings = 0
    /\ emitted = <<>>
    /\ last = NoCall
    /\ migration_script \in Scripts
    /\ prior = NoPrior

\* the call returned, or raised, leaving r
Returns(r) ==
    /\ template_args' = r.template_args
    /\ imports' = r.imports
    /\ _has_batch' = r.flag
    /\ exc' = r.raised
    /\ warnings' = warnings + r.warned
    /\ pc' = IF r.raised # None THEN "raised" ELSE "done"

\* _render_python_into_templatevars(autogen_context, migration_script, template_args)
RenderScript ==
    /\ pc = "start"
    /\ Returns(_render_python_into_templatevars(migration_script, template_args, opts,
                                                impl, _has_batch, imports))
    /\ UNCHANGED <<opts, impl, stack, buf, has_lines, nops, emitted, last,
                   migration_script, prior>>

\* the same call again, on the same Context and a fresh template_args
RenderScriptAgain ==
    /\ pc \in {"done", "raised"}
    /\ ~prior.rendered
    /\ prior' = [rendered |-> TRUE, template_args |-> template_args, exc |-> exc,
                 imports |-> imports]
    /\ Returns(_render_python_into_templatevars(migration_script, NoTemplateArgs, opts,
                                                impl, _has_batch, imports))
    /\ UNCHANGED <<opts, impl, stack, buf, has_lines, nops, emitted, last, migration_script>>

NextTwice == RenderScript \/ RenderScriptAgain

SpecTwice == InitTwice /\ [][NextTwice]_vars

(***************************************************************************)
(* Properties                                                              *)
(***************************************************************************)

\* C1: with render_as_batch enabled the inside-batch flag is true while the
\* children of a ModifyTableOps are rendered; when a container is left, by
\* its return or by an exception of a child, the flag is what it was when
\* the container was entered; outside every container it is the value the
\* pass started with.
C1_FlagScoped ==
    /\ [](opts.render_as_batch /\ stack # <<>> /\ Running => _has_batch)
    /\ [](stack = <<>> => ~_has_batch)
    /\ [][Len(stack') < Len(stack) => _has_batch' = stack[Len(stack)].entered_with]_vars

\* a child of an outer batch container rendered after a nested container returned
C1_Witness ==
    /\ opts.render_as_batch
    /\ Len(stack) = 1
    /\ last.kind = "AlterColumnOp" /\ last.raised = None /\ last.hb /\ last.depth = 1
    /\ \E i \in DOMAIN stack[1].lines :
         i < Len(stack[1].lines) /\ stack[1].lines[i] = Plain("")

\* C2: the text of a direction is the leading marker, the lines the
\* operations returned, in order, and the trailing marker, with one pass
\* line between the markers exactly when no operation returned a line; the
\* body between the markers is never empty.
C2_CmdBody ==
    pc \in {"upgraded", "done"} =>
        /\ buf = <<StartMarker>> \o emitted
                   \o (IF emitted = <<>> THEN <<Pass>> ELSE <<>>) \o <<EndMarker>>
        /\ Len(buf) >= 3

\* a direction whose only operations are containers that render to nothing
C2_Witness ==
    /\ pc = "upgraded"
    /\ nops >= 1
    /\ last.kind = "ModifyTableOps"
    /\ buf = <<StartMarker, Pass, EndMarker>>

\* C3: a ModifyTableOps without children returns no lines whether or not
\* render_as_batch is enabled: no header, no batch scope entered, and the
\* flag and the import set are left as they were.
C3_EmptyModifyTable ==
    /\ \A i \in DOMAIN stack : stack[i].has_ops
    /\ (last.kind = "ModifyTableOps" /\ ~last.has_ops) =>
          /\ last.lines = <<>>
          /\ last.hb_after = last.hb
          /\ last.imports_after = last.imports_before

\* an empty container rendered with render_as_batch enabled, inside a batch block
C3_Witness ==
    /\ opts.render_as_batch
    /\ last.kind = "ModifyTableOps" /\ ~last.has_ops
    /\ last.depth >= 1 /\ last.hb

(***************************************************************************)
(* Imports                                                                 *)
(***************************************************************************)
ImportFor(d) == "from sqlalchemy.dialects import " \o d

\* the types an operation carries: column types, existing_type, type_
TypesOfOp(op) ==
    CASE op.kind = "AlterColumnOp" ->
            {op.existing_type[i] : i \in DOMAIN op.existing_type}
              \cup {op.modify_type[i] : i \in DOMAIN op.modify_type}
      [] op.kind = "AddColumnOp" -> {op.column.type}
      [] op.kind = "CreateTableOp" -> {op.table_columns[i].type : i \in DOMAIN op.table_columns}
      [] OTHER -> {}

\* the dialect namespaces of a type at any nesting depth
RECURSIVE AllDialects(_)
AllDialects(t) ==
    (IF IsDialectMod(t.mod) THEN {Dname(t.mod)} ELSE {})
    \cup UNION {AllDialects(t.item[i]) : i \in DOMAIN t.item}
    \cup UNION {AllDialects(t.base[i]) : i \in DOMAIN t.base}
    \cup UNION {AllDialects(p[2]) : p \in t.mapping}

\* the dialect namespaces of the types the built-in renderer reaches: not a
\* type the render_item hook renders, not what lies below a dialect type or
\* below a type the dialect implementation renders
RECURSIVE ReachedDialects(_, _, _)
ReachedDialects(t, o, im) ==
    IF o.render_item = "type" THEN {}
    ELSE IF IsDialectMod(t.mod) THEN {Dname(t.mod)}
    ELSE IF im = "renders" \/ ~IsSqlalchemyMod(t.mod) THEN {}
    ELSE UNION {ReachedDialects(t.item[i], o, im) : i \in DOMAIN t.item}
         \cup UNION {ReachedDialects(t.base[i], o, im) : i \in DOMAIN t.base}
         \cup UNION {ReachedDialects(p[2], o, im) : p \in t.mapping}

ReachedOfOp(op, o, im) ==
    IF op.kind \in {"AddColumnOp", "CreateTableOp"} /\ o.render_item = "column" THEN {}
    ELSE UNION {ReachedDialects(t, o, im) : t \in TypesOfOp(op)}

\* C4 as stated: every render call leaves the import set equal to its prior
\* content plus one entry per dialect namespace of the types of the
\* operation, at any nesting depth.
C4_EveryNestedDialect ==
    last.kind # "none" =>
        last.imports_after = last.imports_before
            \cup {ImportFor(d) : d \in UNION {AllDialects(t) : t \in TypesOfOp(last.op)}}

\* C4, amended: every render call only adds to the import set, and leaves it
\* equal to its prior content plus one entry per dialect namespace of the
\* types the built-in renderer reaches; the set changes nowhere else, and
\* the import block of a finished pass is the set in lexical order.
C4_Imports ==
    /\ last.kind # "none" =>
          /\ last.imports_before \subseteq last.imports_after
          /\ last.imports_after = last.imports_before
                \cup {ImportFor(d) : d \in ReachedOfOp(last.op, opts, impl)}
          /\ imports = last.imports_after
    /\ pc = "done" =>
          /\ {template_args.imports[i] : i \in DOMAIN template_args.imports} = imports
          /\ \A i, j \in DOMAIN template_args.imports :
                i < j => Rank(template_args.imports[i]) < Rank(template_args.imports[j])

\* the same typed operation rendered a second time: its imports are there already
C4_Witness ==
    /\ last.kind = "AlterColumnOp" /\ last.raised = None
    /\ ReachedOfOp(last.op, opts, impl) = {"postgresql", "mysql"}
    /\ ImportFor("postgresql") \in last.imports_before
    /\ "import myapp" \in last.imports_before
    /\ Cardinality(last.imports_after) = 3

(***************************************************************************)
(* The form of a rendered call                                             *)
(***************************************************************************)
Keys(l) == {l.args[i][1] : i \in DOMAIN l.args}
TableKeys == {"tname", "table", "table_name", "source_table"}
SchemaKeys == {"schema", "source_schema"}

TableScopedKinds == {"AddColumnOp", "DropColumnOp", "AlterColumnOp", "CreateIndexOp",
                     "DropIndexOp", "DropConstraintOp", "CreateUniqueConstraintOp",
                     "CreateForeignKeyOp"}
\* the kinds that a ModifyTableOps groups
BatchChildKinds == TableScopedKinds \cup {"CreateTableCommentOp", "DropTableCommentOp"}

SchemaOfOp(op) == IF op.kind = "CreateForeignKeyOp" THEN op.source_schema ELSE op.schema

\* C5 as stated: every registered renderer writes its call with batch_op.
\* when the inside-batch flag is true and with the configured
\* alembic_module_prefix when it is false.
C5_PrefixFollowsFlag ==
    (last.kind \in LeafKinds /\ last.raised = None) =>
        \A i \in DOMAIN last.lines :
            last.lines[i].prefix = IF last.hb THEN "batch_op."
                                   ELSE OrEmpty(opts.alembic_module_prefix)

\* C6: for the table-scoped kinds the flag alone selects the form: no table
\* name and no schema argument when it is true; the table name, and the
\* schema exactly when one is set, when it is false.
C6_FormByFlag ==
    (last.kind \in TableScopedKinds /\ last.raised = None) =>
        /\ Len(last.lines) = 1
        /\ LET k == Keys(last.lines[1])
           IN IF last.hb
                THEN k \cap (TableKeys \cup SchemaKeys) = {}
                ELSE /\ k \cap TableKeys # {}
                     /\ SchemaOfOp(last.op) # None <=> k \cap SchemaKeys # {}

\* a foreign key with a source schema rendered inside a batch block
C6_Witness ==
    /\ last.kind = "CreateForeignKeyOp" /\ last.raised = None
    /\ last.hb /\ last.op.source_schema = "s"
    /\ opts.alembic_module_prefix = None

\* C7 as stated: every operation a batch container can hold omits its table
\* name and schema when rendered with the flag true.
C7_BatchOmitsQualifiers ==
    (last.kind \in BatchChildKinds /\ last.raised = None /\ last.hb) =>
        \A i \in DOMAIN last.lines :
            Keys(last.lines[i]) \cap (TableKeys \cup SchemaKeys) = {}

(***************************************************************************)
(* Kinds without a renderer, renderers that refuse                         *)
(***************************************************************************)
UnknownKind(op) == DispatchFails(op.kind, LeafKinds \cup {"ModifyTableOps"})
UnknownConstraints(op) ==
    {i \in DOMAIN op.table_constraints :
        DispatchFails(op.table_constraints[i].kind, ConstraintKinds)}
Placeholder(c) == <<"arg", "[Unknown Python object " \o c.kind \o "()]">>
HasPlaceholder(l, c) == \E i \in DOMAIN l.args : l.args[i] = Placeholder(c)
Aborting == pc \in {"unwinding", "raised"}

\* C8 as stated: rendering an operation whose kind has no registered
\* renderer does not abort the pass: a warning is emitted, a placeholder
\* text is produced in its place and rendering goes on.
C8_UnknownOpDegrades ==
    (last.kind # "none" /\ UnknownKind(last.op)) =>
        /\ last.raised = None
        /\ last.warned >= 1
        /\ Len(last.lines) = 1
        /\ ~Aborting

\* C8, amended: an operation whose kind has no registered renderer makes
\* render_op raise the dispatch error: no line, no warning, and the pass is
\* aborted.  A constraint of a CreateTable whose kind has no registered
\* renderer does not abort the pass: one warning per such constraint, a
\* placeholder text embedding it among the table's arguments, and rendering
\* goes on.
C8_UnknownKinds ==
    /\ (last.kind # "none" /\ UnknownKind(last.op)) =>
          /\ last.raised = "ValueError" /\ exc = "ValueError"
          /\ last.lines = <<>> /\ last.warned = 0
          /\ Aborting
    /\ (last.kind = "CreateTableOp" /\ UnknownConstraints(last.op) # {}) =>
          /\ last.raised = None
          /\ last.warned = Cardinality(UnknownConstraints(last.op))
          /\ Len(last.lines) = 1
          /\ \A i \in UnknownConstraints(last.op) :
                HasPlaceholder(last.lines[1], last.op.table_constraints[i])
          /\ ~Aborting
    /\ Aborting <=> exc # None

\* a table with an unknown constraint was rendered with its placeholder, the
\* pass went on, and a later operation of an unknown kind aborted it
C8_Witness ==
    /\ pc = "raised" /\ last.kind = "CreateSequenceOp"
    /\ warnings = 1
    /\ \E i \in DOMAIN buf :
          buf[i].fn = "create_table" /\ HasPlaceholder(buf[i], UnknownConstraint)

\* C9: CreatePrimaryKey, CreateCheckConstraint and ExecuteSQL with a payload
\* that is not literal text raise and yield no line, in every Context state;
\* ExecuteSQL with literal text never raises and yields exactly one line.
C9_Unsupported ==
    /\ last.kind \in {"CreatePrimaryKeyOp", "CreateCheckConstraintOp"} =>
          last.raised = "NotImplementedError" /\ last.lines = <<>>
    /\ last.kind = "ExecuteSQLOp" =>
          IF last.op.sqltext_is_str
            THEN last.raised = None /\ Len(last.lines) = 1
            ELSE last.raised = "NotImplementedError" /\ last.lines = <<>>
    /\ last.kind # "none" => exc = last.raised

\* an ExecuteSQL with a structured payload refused inside a batch block
C9_Witness ==
    /\ last.kind = "ExecuteSQLOp" /\ ~last.op.sqltext_is_str
    /\ last.hb /\ last.depth = 1
    /\ last.raised = "NotImplementedError" /\ pc = "unwinding"

\* C10 as stated: AlterColumn renders existing_nullable only when
\* modify_nullable is None, existing_server_default only when
\* modify_server_default is False, existing_comment only when modify_comment
\* is False; no output holds both the new and the existing value of a field.
C10_ExistingOnlyWithoutNew ==
    (last.kind = "AlterColumnOp" /\ last.raised = None) =>
        LET k == Keys(last.lines[1])
        IN /\ "existing_nullable" \in k => last.op.modify_nullable = None
           /\ "existing_server_default" \in k => last.op.modify_server_default = FalseSD
           /\ "existing_comment" \in k => last.op.modify_comment = False
           /\ ~({"nullable", "existing_nullable"} \subseteq k)
           /\ ~({"server_default", "existing_server_default"} \subseteq k)
           /\ ~({"comment", "existing_comment"} \subseteq k)

(***************************************************************************)
(* AlterColumn: the echo of the column's prior nullability                 *)
(***************************************************************************)
Args(l) == {l.args[i] : i \in DOMAIN l.args}

\* C11: AlterColumn output holds existing_nullable=<v> if and only if
\* modify_nullable is None and existing_nullable is not None; whenever
\* modify_nullable is supplied the output holds nullable=<new value> and no
\* existing_nullable argument.
C11_NullableEcho ==
    (last.kind = "AlterColumnOp" /\ last.raised = None) =>
        LET l == last.lines[1]
            mn == last.op.modify_nullable
            en == last.op.existing_nullable
        IN /\ Len(last.lines) = 1
           /\ "existing_nullable" \in Keys(l) <=> (mn = None /\ en # None)
           /\ "existing_nullable" \in Keys(l) => <<"existing_nullable", en>> \in Args(l)
           /\ "nullable" \in Keys(l) <=> mn # None
           /\ mn # None => <<"nullable", mn>> \in Args(l)

\* a new nullability supplied while the prior one is known
C11_Witness ==
    /\ last.kind = "AlterColumnOp" /\ last.raised = None
    /\ last.op.modify_nullable = False /\ last.op.existing_nullable = True
    /\ <<"nullable", False>> \in Args(last.lines[1])

(***************************************************************************)
(* Foreign key references of a table argument                              *)
(***************************************************************************)
FkConstraints(op) ==
    {c \in {op.table_constraints[i] : i \in DOMAIN op.table_constraints} :
        c.kind = "ForeignKeyConstraint"}

\* the full name of the remote table of a reference: a reference that names
\* no schema is looked up under the namespace's default schema
RemoteTable(fk, ns) ==
    LET n == Len(fk.colspec)
    IN IF ns.schema # None /\ n = 2 THEN ns.schema \o "." \o fk.colspec[n - 1]
       ELSE Dotted(SubSeq(fk.colspec, 1, n - 1))
Present(fk, ns) == \E r \in ns.tables : r[1] = RemoteTable(fk, ns)
Holds(fk, ns) ==
    \E r \in ns.tables : r[1] = RemoteTable(fk, ns) /\ r[2] = fk.colspec[Len(fk.colspec)]
LogicalName(fk, ns) ==
    (CHOOSE r \in ns.tables :
        r[1] = RemoteTable(fk, ns) /\ r[2] = fk.colspec[Len(fk.colspec)])[3]

\* the create_table call holds the foreign key c with its one reference rendered as ref
RendersRef(c, ref) ==
    <<"arg", FkText(c, opts, last.hb, <<ref>>)>> \in Args(last.lines[1])

\* C12 as stated: a reference whose remote table holds the referenced column
\* is rendered with the column's logical name; a reference whose remote
\* table is not in the namespace is rendered as the reference text that was
\* specified, unmodified, also when the namespace has a default schema.
C12_UnresolvedUnmodified ==
    (last.kind = "CreateTableOp" /\ last.raised = None) =>
        \A c \in FkConstraints(last.op) :
            LET fk == c.elements[1]
                ns == last.op.namespace
            IN /\ (Holds(fk, ns) /\ ~fk.link_to_name) =>
                      RendersRef(c, RemoteTable(fk, ns) \o "." \o LogicalName(fk, ns))
               /\ ~Present(fk, ns) => RendersRef(c, Dotted(fk.colspec))

\* C12, amended: as stated, except that a reference that names no schema
\* (table.column) is rendered under the namespace's default schema when the
\* namespace has one, whether or not the remote table is found; the rest of
\* the reference text is unmodified when the table is not found, and nothing
\* fails.
C12_FkReference ==
    (last.kind = "CreateTableOp" /\ FkConstraints(last.op) # {}) =>
        /\ last.raised = None /\ Len(last.lines) = 1
        /\ \A c \in FkConstraints(last.op) :
            LET fk == c.elements[1]
                ns == last.op.namespace
                specified == fk.colspec[Len(fk.colspec)]
            IN /\ (Holds(fk, ns) /\ ~fk.link_to_name) =>
                      RendersRef(c, RemoteTable(fk, ns) \o "." \o LogicalName(fk, ns))
               /\ ~(Holds(fk, ns) /\ ~fk.link_to_name) =>
                      RendersRef(c, RemoteTable(fk, ns) \o "." \o specified)
               /\ (~Present(fk, ns) /\ (ns.schema = None \/ Len(fk.colspec) # 2)) =>
                      RendersRef(c, Dotted(fk.colspec))

\* the remote table is found under the default schema and the column is
\* rendered with its logical name
C12_Witness ==
    /\ last.kind = "CreateTableOp" /\ last.raised = None
    /\ \E c \in FkConstraints(last.op) :
          /\ c.elements[1].colspec = <<"r", "key">> /\ ~c.elements[1].link_to_name
          /\ last.op.namespace.schema = "s"
          /\ Holds(c.elements[1], last.op.namespace)
          /\ RendersRef(c, "s.r.name")

(***************************************************************************)
(* CreateTable: the argument ceiling                                       *)
(***************************************************************************)
\* a constraint that renders as absent: a primary key without columns, a
\* check constraint that belongs to a column's type
Absent(c) ==
    \/ c.kind = "PrimaryKeyConstraint" /\ c.columns = <<>>
    \/ c.kind = "CheckConstraint" /\ c.type_bound

\* the rendered arguments of a table: its columns and the constraints that
\* do not render as absent
NumRendered(op) ==
    Len(op.table_columns)
      + Cardinality({i \in DOMAIN op.table_constraints : ~Absent(op.table_constraints[i])})

NumKey(l, k) == Cardinality({i \in DOMAIN l.args : l.args[i][1] = k})

\* C13: CreateTable uses the single unpacked-list argument exactly when the
\* number of rendered arguments exceeds 255 and the flat positional form
\* when it is 255 or fewer; the count is of the column renders and of the
\* constraint renders that are not absent.
C13_ArgCeiling ==
    (last.kind = "CreateTableOp" /\ last.raised = None) =>
        LET l == last.lines[1]
        IN IF NumRendered(last.op) > 255
             THEN NumKey(l, "*args") = 1 /\ NumKey(l, "arg") = 0
             ELSE NumKey(l, "*args") = 0 /\ NumKey(l, "arg") = NumRendered(last.op)

\* 255 columns and one rendered constraint: the unpacked list
C13_Witness ==
    /\ last.kind = "CreateTableOp" /\ last.raised = None
    /\ Len(last.op.table_columns) = 255 /\ NumRendered(last.op) = 256
    /\ "*args" \in Keys(last.lines[1])

\* 255 columns and a constraint that renders as absent: the flat form
C13_WitnessAbsent ==
    /\ last.kind = "CreateTableOp" /\ last.raised = None
    /\ Len(last.op.table_columns) = 255 /\ Len(last.op.table_constraints) = 1
    /\ NumKey(last.lines[1], "arg") = 255

(***************************************************************************)
(* Constraints that render as absent                                       *)
(***************************************************************************)
\* the item kind under which the render_item hook is asked about a constraint
HookKind(c) ==
    CASE c.kind = "PrimaryKeyConstraint" -> "primary_key"
      [] c.kind = "ForeignKeyConstraint" -> "foreign_key"
      [] c.kind = "UniqueConstraint" -> "unique"
      [] c.kind = "CheckConstraint" -> "check"
      [] OTHER -> None
HookRenders(c) == _user_defined_render(HookKind(c), opts) # False
AbsentOf(op) == {i \in DOMAIN op.table_constraints : Absent(op.table_constraints[i])}

\* C14 as stated: a primary key without columns and a check constraint that
\* belongs to a column's type contribute no argument to the enclosing
\* CreateTable, under every configuration, also with a render_item hook.
C14_AlwaysAbsent ==
    (last.kind = "CreateTableOp" /\ last.raised = None /\ AbsentOf(last.op) # {}) =>
        NumKey(last.lines[1], "arg") = NumRendered(last.op)

\* C14, amended: such a constraint contributes no argument unless the
\* render_item hook returns a rendering for it; the hook is asked first, and
\* its text is then the argument.
C14_AbsentUnlessHook ==
    (last.kind = "CreateTableOp" /\ AbsentOf(last.op) # {}) =>
        LET cons == last.op.table_constraints
            hooked == {i \in AbsentOf(last.op) : HookRenders(cons[i])}
        IN /\ last.raised = None /\ Len(last.lines) = 1
           /\ NumKey(last.lines[1], "arg") = NumRendered(last.op) + Cardinality(hooked)
           /\ \A i \in hooked :
                <<"arg", _user_defined_render(HookKind(cons[i]), opts)>>
                    \in Args(last.lines[1])

\* a hook that declines is configured; the table's two constraints are both
\* absent and only the column is an argument
C14_Witness ==
    /\ last.kind = "CreateTableOp" /\ last.raised = None
    /\ opts.render_item = "decline"
    /\ Cardinality(AbsentOf(last.op)) = 2
    /\ \E i, j \in AbsentOf(last.op) :
          last.op.table_constraints[i].kind # last.op.table_constraints[j].kind
    /\ NumKey(last.lines[1], "arg") = 1

(***************************************************************************)
(* Rendering a script twice                                                *)
(***************************************************************************)
\* C15: rendering the same operation tree twice with the same Context
\* configuration yields identical lines for each direction and an identical
\* import block; the second render does not depend on the import set and
\* the inside-batch flag the first one left.
C15_Deterministic ==
    prior.rendered =>
        /\ template_args = prior.template_args
        /\ exc = prior.exc
        /\ imports = prior.imports
        /\ ~_has_batch

\* a script with a batch block and dialect types, rendered twice: the first
\* render left its imports in the Context
C15_Witness ==
    /\ prior.rendered /\ pc = "done" /\ opts.render_as_batch
    /\ Len(template_args.imports) >= 2
    /\ \E i \in DOMAIN template_args.upgrades :
          template_args.upgrades[i].line.prefix = "batch_op."
    /\ Len(template_args.downgrades) = 3

(***************************************************************************)
(* The resolution order of type rendering                                  *)
(***************************************************************************)
Asked(who) == \E i \in DOMAIN last.asked : last.asked[i] = who

\* C16: a rendering returned by the render_item hook is returned as is,
\* without the dialect implementation being asked and with the import set
\* untouched; otherwise a rendering returned by the dialect implementation
\* is returned in preference to every built-in rendering, the array and
\* variant renderers included; the built-in rendering is used only when
\* both decline.
C16_ResolutionOrder ==
    last.kind = "_repr_type" =>
        LET hook == _user_defined_render("type", opts)
            impl_rt == impl_render_type(impl, last.type)
        IN /\ hook # False =>
                /\ last.text = hook
                /\ ~Asked("impl")
                /\ last.imports_after = last.imports_before
           /\ (hook = False /\ impl_rt # None) => last.text = impl_rt /\ Asked("impl")
           /\ last.text \notin {hook, impl_rt} => hook = False /\ impl_rt = None
           /\ (Asked("impl") /\ Asked("render_item")) => last.asked[1] = "render_item"

\* the hook declines, and the implementation's rendering of an array of a
\* dialect type is returned instead of the array renderer's
C16_Witness ==
    /\ last.kind = "_repr_type" /\ last.type = ARRAY(PG_UUID)
    /\ opts.render_item = "decline" /\ impl = "renders"
    /\ last.text = "impl.ARRAY()"
    /\ last.asked = <<"render_item", "impl">>

(***************************************************************************)
(* Identity server defaults                                                *)
(***************************************************************************)
\* the keyword names an Identity(...) can carry, in their fixed order
IdentityKeys == <<"always", "on_null">> \o _identity_options_attrs
KeyPos(k) == CHOOSE i \in DOMAIN IdentityKeys : IdentityKeys[i] = k

\* C17: an identity server default renders always=<value> in every output,
\* also when always is False; its other keyword arguments are on_null, when
\* not absent, followed by the option attributes whose value is not absent,
\* in the fixed attribute order.
C17_IdentityKwargs ==
    last.kind = "_render_identity" =>
        LET kw == last.kwargs
            id == last.identity
            keys == {kw[i][1] : i \in DOMAIN kw}
        IN /\ Len(kw) >= 1 /\ kw[1] = <<"always", id.always>>
           /\ \A k \in {IdentityKeys[i] : i \in 2..Len(IdentityKeys)} :
                k \in keys <=> id[k] # None
           /\ \A i \in DOMAIN kw : kw[i][2] = id[kw[i][1]]
           /\ \A i, j \in DOMAIN kw : i < j => KeyPos(kw[i][1]) < KeyPos(kw[j][1])
           /\ last.text = OrEmpty(opts.sqlalchemy_module_prefix) \o "Identity("
                            \o KwargsText(kw) \o ")"
           /\ last.server_default = last.text

\* always=False is written out, before the options that are set
C17_Witness ==
    /\ last.kind = "_render_identity"
    /\ last.identity.always = False /\ last.identity.on_null = None
    /\ last.text = "sa.Identity(always=False, start=1, cycle=True)"

(***************************************************************************)
(* Batch blocks                                                            *)
(***************************************************************************)
IsBatchHeader(l) == l.fn = "batch_alter_table"

\* C18: with render_as_batch, a batch-alter header line is written only when
\* a child statement line follows it inside the block: in the lines of a
\* script direction no header is followed at once by the line that ends its
\* block, and none is the last line.
C18_HeaderHasBody ==
    \A i \in DOMAIN buf :
        IsBatchHeader(buf[i]) => i < Len(buf) /\ buf[i + 1] # Plain("")

C19_WitnessUpgrade ==
    /\ pc = "raised" /\ exc # None
    /\ template_args = NoTemplateArgs
    /\ migration_script.upgrade_ops # <<>>

====
